---- MODULE Spec2Model ----
(***************************************************************************)
(* Model of the disk blob manager (3blob_manager/blob_manager_disk.cc).   *)
(*                                                                         *)
(* The file is an array of 64-bit words.  Sizes, offsets and addresses    *)
(* are counted in words.  A PBlobHeader is three words (self; size;       *)
(* alloc_size and flags packed as two 32-bit halves).  A PBlobPageHeader  *)
(* is 1 + FreelistEntries words (num_pages and free_bytes packed; then    *)
(* one word per freelist slot, offset and size packed).  Page 0 of the    *)
(* file is the environment header page, blob pages are 1..MaxPages.       *)
(***************************************************************************)
EXTENDS Integers, Sequences, FiniteSets, TLC

\* ------------------------------------------------------------------ sizes
\* page_size_bytes of the environment configuration, in words
PageSize == 16
\* header->get_freelist_entries()
FreelistEntries == 2
\* sizeof(PBlobHeader), in words
SizeofBlobHeader == 3
\* 2^w for a w-bit uint32_t half of a word
Half == 128
\* number of blob pages the page manager can hand out
MaxPages == 3
\* number of allocate/overwrite/erase/corrupt steps of a run
MaxOps == 5

kPageOverhead == 1 + FreelistEntries

Pages == 1..MaxPages
Addr == PageSize..((MaxPages + 1) * PageSize - 1)

\* flags of PBlobHeader
kIsCompressed == 1

Min(a, b) == IF a < b THEN a ELSE b

\* uint32_t arithmetic
U32(x) == x % Half

\* ------------------------------------------------------------ word layout
Lo(w) == w % Half
Hi(w) == w \div Half
Pack(lo, hi) == U32(lo) + Half * U32(hi)

PageAddress(p) == p * PageSize
PageId(address) == address - (address % PageSize)

\* PBlobPageHeader accessors; pa is the address of the page
get_num_pages(f, pa) == Lo(f[pa])
get_free_bytes(f, pa) == Hi(f[pa])
get_freelist_offset(f, pa, i) == Lo(f[pa + 1 + i])
get_freelist_size(f, pa, i) == Hi(f[pa + 1 + i])
set_num_pages(f, pa, n) == [f EXCEPT ![pa] = Pack(n, Hi(f[pa]))]
set_free_bytes(f, pa, n) == [f EXCEPT ![pa] = Pack(Lo(f[pa]), n)]
set_freelist_offset(f, pa, i, v) ==
  [f EXCEPT ![pa + 1 + i] = Pack(v, Hi(f[pa + 1 + i]))]
set_freelist_size(f, pa, i, v) ==
  [f EXCEPT ![pa + 1 + i] = Pack(Lo(f[pa + 1 + i]), v)]
\* PBlobPageHeader::initialize: memset to zero
initialize(f, pa) ==
  [a \in Addr |-> IF a >= pa /\ a < pa + kPageOverhead THEN 0 ELSE f[a]]

\* PBlobHeader accessors; a is the address of the header
get_self(f, a) == f[a]
get_size(f, a) == f[a + 1]
get_alloc_size(f, a) == Lo(f[a + 2])
get_flags(f, a) == Hi(f[a + 2])
BlobHeaderWords(self, size, alloc_size, flags) ==
  <<self, size, Pack(alloc_size, flags)>>

\* --------------------------------------------------------------- freelist
\* variant: a slot of exactly the requested size is preferred to an earlier,
\* larger one
FirstSlot_exact_first(f, pa, i, size) ==
  LET fits == {j \in i..(FreelistEntries - 1) :
                 get_freelist_size(f, pa, j) >= size}
      exact == {j \in fits : get_freelist_size(f, pa, j) = size}
      pick == IF exact # {} THEN exact ELSE fits
  IN IF pick = {} THEN -1
     ELSE CHOOSE j \in pick : \A k \in pick : j <= k

\* the first slot at index >= i whose size is >= the requested size, or -1
RECURSIVE FirstSlot(_, _, _, _)
FirstSlot(f, pa, i, size) ==
  IF i >= FreelistEntries THEN -1
  ELSE IF get_freelist_size(f, pa, i) >= size THEN i
  ELSE FirstSlot(f, pa, i + 1, size)

\* variant: a larger slot is shrunk but its offset is not advanced
alloc_from_freelist_stale_offset(f, pa, size) ==
  IF get_num_pages(f, pa) > 1 THEN [ok |-> FALSE, off |-> 0, f |-> f]
  ELSE LET i == FirstSlot(f, pa, 0, size) IN
    IF i = -1 THEN [ok |-> FALSE, off |-> 0, f |-> f]
    ELSE IF get_freelist_size(f, pa, i) = size
      THEN [ok |-> TRUE, off |-> get_freelist_offset(f, pa, i),
            f |-> set_freelist_size(set_freelist_offset(f, pa, i, 0), pa, i, 0)]
      ELSE [ok |-> TRUE, off |-> get_freelist_offset(f, pa, i),
            f |-> set_freelist_size(f, pa, i,
                                    get_freelist_size(f, pa, i) - size)]

\* variant: a slot of exactly the requested size is handed out and kept
alloc_from_freelist_keeps_exact(f, pa, size) ==
  IF get_num_pages(f, pa) > 1 THEN [ok |-> FALSE, off |-> 0, f |-> f]
  ELSE LET i == FirstSlot(f, pa, 0, size) IN
    IF i = -1 THEN [ok |-> FALSE, off |-> 0, f |-> f]
    ELSE IF get_freelist_size(f, pa, i) = size
      THEN [ok |-> TRUE, off |-> get_freelist_offset(f, pa, i), f |-> f]
      ELSE [ok |-> TRUE, off |-> get_freelist_offset(f, pa, i),
            f |-> set_freelist_size(
                    set_freelist_offset(f, pa, i,
                        U32(get_freelist_offset(f, pa, i) + size)),
                    pa, i, get_freelist_size(f, pa, i) - size)]

alloc_from_freelist(f, pa, size) ==
  IF get_num_pages(f, pa) > 1 THEN [ok |-> FALSE, off |-> 0, f |-> f]
  ELSE LET i == FirstSlot(f, pa, 0, size) IN
    IF i = -1 THEN [ok |-> FALSE, off |-> 0, f |-> f]
    ELSE IF get_freelist_size(f, pa, i) = size
      THEN [ok |-> TRUE, off |-> get_freelist_offset(f, pa, i),
            f |-> set_freelist_size(set_freelist_offset(f, pa, i, 0), pa, i, 0)]
      ELSE [ok |-> TRUE, off |-> get_freelist_offset(f, pa, i),
            f |-> set_freelist_size(
                    set_freelist_offset(f, pa, i,
                        U32(get_freelist_offset(f, pa, i) + size)),
                    pa, i, get_freelist_size(f, pa, i) - size)]

\* first slot that abuts the region (offset, size), or -1
RECURSIVE CollapseSlot(_, _, _, _, _)
CollapseSlot(f, pa, i, offset, size) ==
  IF i >= FreelistEntries THEN -1
  ELSE IF U32(offset + size) = get_freelist_offset(f, pa, i)
          \/ U32(get_freelist_offset(f, pa, i) + get_freelist_size(f, pa, i))
               = offset
       THEN i
  ELSE CollapseSlot(f, pa, i + 1, offset, size)

\* second loop of add_to_freelist: <<"empty", i>> for the first empty slot,
\* else <<"full", smallest>>
RECURSIVE StoreSlot(_, _, _, _)
StoreSlot(f, pa, i, smallest) ==
  IF i >= FreelistEntries THEN <<"full", smallest>>
  ELSE IF get_freelist_size(f, pa, i) = 0 THEN <<"empty", i>>
  ELSE IF get_freelist_size(f, pa, i) < get_freelist_size(f, pa, smallest)
       THEN StoreSlot(f, pa, i + 1, i)
  ELSE StoreSlot(f, pa, i + 1, smallest)

\* variant: a region merged in front of a slot grows the slot's size but
\* leaves its offset where it was
add_to_freelist_no_move(f, pa, offset, size) ==
  IF get_num_pages(f, pa) > 1 THEN f
  ELSE LET c == CollapseSlot(f, pa, 0, offset, size) IN
    IF c # -1 THEN
      set_freelist_size(f, pa, c, get_freelist_size(f, pa, c) + size)
    ELSE LET s == StoreSlot(f, pa, 0, 0) IN
      IF s[1] = "empty"
      THEN set_freelist_size(set_freelist_offset(f, pa, s[2], offset),
                             pa, s[2], size)
      ELSE IF size > get_freelist_size(f, pa, s[2])
      THEN set_freelist_size(set_freelist_offset(f, pa, s[2], offset),
                             pa, s[2], size)
      ELSE f

\* variant: when every slot is taken, a region as large as the smallest
\* slot already replaces it
add_to_freelist_evicts_equal(f, pa, offset, size) ==
  IF get_num_pages(f, pa) > 1 THEN f
  ELSE LET c == CollapseSlot(f, pa, 0, offset, size) IN
    IF c # -1 THEN
      IF U32(offset + size) = get_freelist_offset(f, pa, c)
      THEN set_freelist_size(set_freelist_offset(f, pa, c, offset),
                             pa, c, get_freelist_size(f, pa, c) + size)
      ELSE set_freelist_size(f, pa, c, get_freelist_size(f, pa, c) + size)
    ELSE LET s == StoreSlot(f, pa, 0, 0) IN
      IF s[1] = "empty"
      THEN set_freelist_size(set_freelist_offset(f, pa, s[2], offset),
                             pa, s[2], size)
      ELSE IF size >= get_freelist_size(f, pa, s[2])
      THEN set_freelist_size(set_freelist_offset(f, pa, s[2], offset),
                             pa, s[2], size)
      ELSE f

add_to_freelist(f, pa, offset, size) ==
  IF get_num_pages(f, pa) > 1 THEN f
  ELSE LET c == CollapseSlot(f, pa, 0, offset, size) IN
    IF c # -1 THEN
      IF U32(offset + size) = get_freelist_offset(f, pa, c)
      THEN set_freelist_size(set_freelist_offset(f, pa, c, offset),
                             pa, c, get_freelist_size(f, pa, c) + size)
      ELSE set_freelist_size(f, pa, c, get_freelist_size(f, pa, c) + size)
    ELSE LET s == StoreSlot(f, pa, 0, 0) IN
      IF s[1] = "empty"
      THEN set_freelist_size(set_freelist_offset(f, pa, s[2], offset),
                             pa, s[2], size)
      ELSE IF size > get_freelist_size(f, pa, s[2])
      THEN set_freelist_size(set_freelist_offset(f, pa, s[2], offset),
                             pa, s[2], size)
      ELSE f

\* ------------------------------------------------- hash and compressor
\* MurmurHash3_x86_32 with seed 0 on w-bit words.  As in MurmurHash3 every
\* block enters the state through a bijection that depends on its position
\* (here: times an odd weight), the length is mixed in last, then fmix (a
\* bijection).  The blocks are summed by halves to keep the evaluation flat.
RECURSIVE MurmurBody(_, _, _)
MurmurBody(data, lo, hi) ==
  IF lo > hi THEN 0
  ELSE IF lo = hi THEN ((2 * lo + 1) * data[lo]) % Half
  ELSE LET mid == (lo + hi) \div 2
       IN (MurmurBody(data, lo, mid) + MurmurBody(data, mid + 1, hi)) % Half

MurmurHash3_x86_32(data) ==
  (13 * ((MurmurBody(data, 1, Len(data)) + Len(data)) % Half) + 7) % Half

\* A run-length record compressor: a constant buffer is stored as one word,
\* anything else does not shrink
AllEqual(data) == \A i \in 1..Len(data) : data[i] = data[1]
compress(data) ==
  IF Len(data) >= 1 /\ AllEqual(data) THEN <<data[1]>> ELSE Append(data, 0)
decompress(cdata, expected_len) == [i \in 1..expected_len |-> cdata[1]]

\* -------------------------------------------------------------- chunk I/O
\* write_chunks for one chunk: walks the pages the chunk covers
RECURSIVE write_chunks(_, _, _)
write_chunks(f, address, data) ==
  IF Len(data) = 0 THEN f
  ELSE LET pageid == PageId(address)
           write_start == address - pageid
           write_size == Min(PageSize - write_start, Len(data))
       IN write_chunks(
            [a \in Addr |-> IF a >= address /\ a < address + write_size
                            THEN data[a - address + 1] ELSE f[a]],
            address + write_size,
            SubSeq(data, write_size + 1, Len(data)))

\* copy_chunk: reads size words starting at address, page by page
RECURSIVE copy_chunk(_, _, _)
copy_chunk(f, address, size) ==
  IF size = 0 THEN <<>>
  ELSE LET pageid == PageId(address)
           read_start == address - pageid
           read_size == Min(PageSize - read_start, size)
       IN [i \in 1..read_size |-> f[address + i - 1]]
            \o copy_chunk(f, address + read_size, size - read_size)

Zeroes(n) == [i \in 1..n |-> 0]

\* the gap loops of do_allocate: zero fill in chunks of at most a page
RECURSIVE FillGap(_, _, _)
FillGap(f, address, gapsize) ==
  IF gapsize = 0 THEN f
  ELSE LET size == IF gapsize >= PageSize THEN PageSize ELSE gapsize
       IN FillGap(write_chunks(f, address, Zeroes(size)),
                  address + size, gapsize - size)

\* ------------------------------------------------------- check_integrity
RECURSIVE SumSizes(_, _, _, _)
SumSizes(f, pa, i, n) ==
  IF i >= n THEN 0
  ELSE get_freelist_size(f, pa, i) + SumSizes(f, pa, i + 1, n)

\* the slots 0..count-2 the function visits, as (offset, size) ranges
Ranges(f, pa) ==
  {<<get_freelist_offset(f, pa, i), get_freelist_size(f, pa, i)>> :
     i \in {j \in 0..(FreelistEntries - 2) : get_freelist_size(f, pa, j) # 0}}

RangeLess(r, s) == r[1] < s[1] \/ (r[1] = s[1] /\ r[2] < s[2])
\* r is directly followed by s in the sorted vector
Adjacent(R, r, s) ==
  RangeLess(r, s) /\ ~ \E t \in R : RangeLess(r, t) /\ RangeLess(t, s)

\* "ok", "false" (returns false) or "throw" (HAM_INTEGRITY_VIOLATED)
check_integrity(f, pa) ==
  IF get_free_bytes(f, pa) + kPageOverhead > PageSize * get_num_pages(f, pa)
  THEN "false"
  ELSE IF get_num_pages(f, pa) > 1 THEN "ok"
  ELSE IF SumSizes(f, pa, 0, FreelistEntries - 1) > get_free_bytes(f, pa)
  THEN "false"
  ELSE LET R == Ranges(f, pa) IN
    IF \E r \in R : (\E s \in R : RangeLess(r, s))
                    /\ r[1] + r[2] > PageSize * get_num_pages(f, pa)
    THEN "false"
    ELSE IF \E r, s \in R : Adjacent(R, r, s) /\ r[1] + r[2] > s[1]
    THEN "throw"
    ELSE "ok"

\* ------------------------------------------------------------------ state
VARIABLES
  file,            \* the words of the blob pages, as the page cache holds them
  last_blob_page,  \* PageManager: page number of the hint, 0 if none
  pm_runs,         \* PageManager: runs handed out, as <<first page, num_pages>>
  crc,             \* environment flag HAM_ENABLE_CRC32
  compressor,      \* db->get_record_compressor() != 0
  live,            \* blob id -> the record last written to it, for live blobs
  known,           \* every blob id ever returned
  hist,            \* the latest operations, most recent first
  nops,            \* number of operations so far
  rres,            \* result of a read or get_blob_size the caller holds
  workload         \* the kind of records this run's caller writes

\* the disk device under the page cache
VARIABLES
  m_state,         \* DiskDevice::State: the file handle, the mmap window, sizes
  m_config,        \* the EnvironmentConfiguration the device was built with
  os,              \* the file and the address space as the kernel has them
  the_page,        \* the Page object the callers pass to the device
  dhist,           \* the latest device operation and its outcome
  dops,            \* number of device operations so far
  m_mutex,         \* Spinlock: 0 when free, else the thread that holds it
  thr              \* each thread's position in the device operation it runs

blobvars == <<file, last_blob_page, pm_runs, crc, compressor, live, known,
              hist, nops, rres, workload>>
devvars == <<m_state, m_config, os, the_page, dhist, dops, m_mutex, thr>>
vars == <<file, last_blob_page, pm_runs, crc, compressor, live, known, hist,
          nops, rres, workload, m_state, m_config, os, the_page, dhist,
          dops,
          m_mutex, thr>>

\* ----------------------------------------------------------- PageManager
UsedPages(runs) == UNION {r[1]..(r[1] + r[2] - 1) : r \in runs}
\* alloc_multiple_blob_pages: any run of num_pages contiguous unused pages
FreeRunStarts(runs, num_pages) ==
  {p \in Pages : /\ p + num_pages - 1 <= MaxPages
                 /\ (p..(p + num_pages - 1)) \cap UsedPages(runs) = {}}
\* del(page, num_pages)
del(runs, p, num_pages) == runs \ {<<p, num_pages>>}

\* ------------------------------------------------------------ do_allocate
\* a record: size, data (partial_size words when written with HAM_PARTIAL),
\* partial_offset, partial_size; flags: partial, nocompress
Compresses(rec, flags) ==
  /\ compressor
  /\ ~flags.nocompress
  /\ Len(compress(rec.data)) < rec.size

\* record_size after the compression step
RecordSize(rec, flags) ==
  IF Compresses(rec, flags) THEN Len(compress(rec.data)) ELSE rec.size
RecordData(rec, flags) ==
  IF Compresses(rec, flags) THEN compress(rec.data) ELSE rec.data

NumPagesFor(alloc_size) ==
  LET required_size == alloc_size + kPageOverhead
      n == required_size \div PageSize
  IN IF n * PageSize < required_size THEN n + 1 ELSE n

\* step 1: the freelist of the last blob page
FromLastPage(f, lbp, alloc_size) ==
  IF lbp = 0 THEN [ok |-> FALSE, off |-> 0, f |-> f]
  ELSE alloc_from_freelist(f, PageAddress(lbp), alloc_size)

\* a new run whose remainder is not put on the freelist
NewRun_no_remainder(f, np, alloc_size, rec, flags) ==
  LET pa == PageAddress(np)
      num_pages == NumPagesFor(alloc_size)
      f1 == set_free_bytes(set_num_pages(initialize(f, pa), pa, num_pages),
                           pa, (num_pages * PageSize) - kPageOverhead)
      crc32 == IF flags.partial THEN 0 ELSE MurmurHash3_x86_32(rec.data)
  IN IF num_pages > 1 /\ crc THEN set_freelist_offset(f1, pa, 0, crc32) ELSE f1

\* variant: the remainder slot of a new single-page run starts on the last
\* word of the blob
NewRun_early_remainder(f, np, alloc_size, rec, flags) ==
  LET pa == PageAddress(np)
      num_pages == NumPagesFor(alloc_size)
      f1 == set_free_bytes(set_num_pages(initialize(f, pa), pa, num_pages),
                           pa, (num_pages * PageSize) - kPageOverhead)
      rest == U32(get_free_bytes(f1, pa) - alloc_size)
      f2 == IF num_pages = 1 /\ U32(kPageOverhead + alloc_size) > 0 /\ rest > 0
            THEN set_freelist_size(
                   set_freelist_offset(f1, pa, 0,
                                       kPageOverhead + alloc_size - 1),
                   pa, 0, rest)
            ELSE f1
      crc32 == IF flags.partial THEN 0 ELSE MurmurHash3_x86_32(rec.data)
  IN IF num_pages > 1 /\ crc THEN set_freelist_offset(f2, pa, 0, crc32) ELSE f2

\* step 2: a new run starting at page np
NewRun(f, np, alloc_size, rec, flags) ==
  LET pa == PageAddress(np)
      num_pages == NumPagesFor(alloc_size)
      f1 == set_free_bytes(set_num_pages(initialize(f, pa), pa, num_pages),
                           pa, (num_pages * PageSize) - kPageOverhead)
      rest == U32(get_free_bytes(f1, pa) - alloc_size)
      f2 == IF num_pages = 1 /\ U32(kPageOverhead + alloc_size) > 0 /\ rest > 0
            THEN set_freelist_size(
                   set_freelist_offset(f1, pa, 0, kPageOverhead + alloc_size),
                   pa, 0, rest)
            ELSE f1
      crc32 == IF flags.partial THEN 0 ELSE MurmurHash3_x86_32(rec.data)
  IN IF num_pages > 1 /\ crc THEN set_freelist_offset(f2, pa, 0, crc32) ELSE f2

\* step 3: the blob header and the payload, with the gaps of a partial write
WriteBlob(f, address, header, rec, flags, record_data, record_size) ==
  IF flags.partial /\ rec.partial_offset > 0
  THEN LET f1 == write_chunks(f, address, header)
           a1 == address + SizeofBlobHeader
           f2 == FillGap(f1, a1, rec.partial_offset)
           a2 == a1 + rec.partial_offset
           f3 == write_chunks(f2, a2, SubSeq(rec.data, 1, rec.partial_size))
       IN [f |-> f3, address |-> a2 + rec.partial_size]
  ELSE LET n == IF flags.partial THEN rec.partial_size ELSE record_size
       IN [f |-> write_chunks(f, address, header \o SubSeq(record_data, 1, n)),
           address |-> address + SizeofBlobHeader + n]

TrailingGap(f, address, rec, flags) ==
  IF flags.partial /\ rec.partial_offset + rec.partial_size < rec.size
  THEN FillGap(f, address, rec.size - (rec.partial_offset + rec.partial_size))
  ELSE f

\* variant: the page of the new blob becomes the hint even when it is full
do_allocate_hint_on_full(f, lbp, runs, rec, flags, np) ==
  LET record_size == RecordSize(rec, flags)
      record_data == RecordData(rec, flags)
      alloc_size == SizeofBlobHeader + record_size
      fl == FromLastPage(f, lbp, alloc_size)
      reuse == fl.ok /\ fl.off + PageAddress(lbp) # 0
      page == IF reuse THEN lbp ELSE np
      pa == PageAddress(page)
      address == IF reuse THEN fl.off + pa ELSE pa + kPageOverhead
      f1 == IF reuse THEN fl.f ELSE NewRun(fl.f, np, alloc_size, rec, flags)
      runs1 == IF reuse THEN runs
               ELSE runs \cup {<<np, NumPagesFor(alloc_size)>>}
      f2 == set_free_bytes(f1, pa, U32(get_free_bytes(f1, pa) - alloc_size))
      header == BlobHeaderWords(address, rec.size, alloc_size,
                  IF rec.size # record_size THEN kIsCompressed ELSE 0)
      w == WriteBlob(f2, address, header, rec, flags, record_data, record_size)
      f3 == TrailingGap(w.f, w.address, rec, flags)
  IN [f |-> f3, lbp |-> page, runs |-> runs1, id |-> address,
      alloc_size |-> alloc_size, page |-> page, newrun |-> ~reuse]

do_allocate(f, lbp, runs, rec, flags, np) ==
  LET record_size == RecordSize(rec, flags)
      record_data == RecordData(rec, flags)
      alloc_size == SizeofBlobHeader + record_size
      fl == FromLastPage(f, lbp, alloc_size)
      reuse == fl.ok /\ fl.off + PageAddress(lbp) # 0
      page == IF reuse THEN lbp ELSE np
      pa == PageAddress(page)
      address == IF reuse THEN fl.off + pa ELSE pa + kPageOverhead
      f1 == IF reuse THEN fl.f ELSE NewRun(fl.f, np, alloc_size, rec, flags)
      runs1 == IF reuse THEN runs
               ELSE runs \cup {<<np, NumPagesFor(alloc_size)>>}
      f2 == set_free_bytes(f1, pa, U32(get_free_bytes(f1, pa) - alloc_size))
      lbp1 == IF get_free_bytes(f2, pa) # 0 THEN page ELSE 0
      header == BlobHeaderWords(address, rec.size, alloc_size,
                  IF rec.size # record_size THEN kIsCompressed ELSE 0)
      w == WriteBlob(f2, address, header, rec, flags, record_data, record_size)
      f3 == TrailingGap(w.f, w.address, rec, flags)
  IN [f |-> f3, lbp |-> lbp1, runs |-> runs1, id |-> address,
      alloc_size |-> alloc_size, page |-> page, newrun |-> ~reuse]

\* does the allocation need a new run, and of how many pages
NeedsNewRun(f, lbp, rec, flags) ==
  ~FromLastPage(f, lbp, SizeofBlobHeader + RecordSize(rec, flags)).ok
PagesNeeded(rec, flags) == NumPagesFor(SizeofBlobHeader + RecordSize(rec, flags))
\* the pages the page manager may return for this allocation (0: none needed)
NewPages(f, lbp, runs, rec, flags) ==
  IF NeedsNewRun(f, lbp, rec, flags)
  THEN FreeRunStarts(runs, PagesNeeded(rec, flags))
  ELSE {0}

\* ---------------------------------------------------------------- do_read
\* rf: partial, partial_offset, partial_size of the caller's record
\* (the record passed to read)
\* variant: runs of two pages are not verified
crc32_mismatch_long_runs_only(f, pa, rf, data) ==
  /\ get_num_pages(f, pa) > 2
  /\ crc
  /\ ~rf.partial
  /\ get_freelist_offset(f, pa, 0) # MurmurHash3_x86_32(data)

\* the checksum of a multi-page blob is verified and differs
crc32_mismatch(f, pa, rf, data) ==
  /\ get_num_pages(f, pa) > 1
  /\ crc
  /\ ~rf.partial
  /\ get_freelist_offset(f, pa, 0) # MurmurHash3_x86_32(data)

\* a Partial read that takes partial_size bytes whatever the blob holds
effective_size_unclamped(size, rf) ==
  IF ~rf.partial THEN size ELSE rf.partial_size

\* the number of bytes a read returns: the whole blob, or the part of the
\* requested window that lies inside the blob
effective_size(size, rf) ==
  IF ~rf.partial THEN size
  ELSE IF rf.partial_offset + rf.partial_size > size
       THEN size - rf.partial_offset
       ELSE rf.partial_size

do_read(f, blobid, rf) ==
  IF get_self(f, blobid) # blobid
  THEN [status |-> "BlobNotFound", size |-> 0, data |-> <<>>]
  ELSE LET size == U32(get_size(f, blobid))
           blobsize == effective_size(size, rf)
           start == blobid + SizeofBlobHeader
                      + (IF rf.partial THEN rf.partial_offset ELSE 0)
           stored == get_alloc_size(f, blobid) - SizeofBlobHeader
           data ==
             IF get_flags(f, blobid) % 2 = kIsCompressed
             THEN decompress(copy_chunk(f, blobid + SizeofBlobHeader, stored),
                             blobsize)
             ELSE copy_chunk(f, start, blobsize)
           pa == PageId(blobid)
       IN IF rf.partial /\ rf.partial_offset > size
          THEN [status |-> "InvalidParameter", size |-> size, data |-> <<>>]
          ELSE IF blobsize = 0
          THEN [status |-> "ok", size |-> 0, data |-> <<>>]
          ELSE IF crc32_mismatch(f, pa, rf, data)
          THEN [status |-> "IntegrityViolated", size |-> size, data |-> data]
          ELSE [status |-> "ok", size |-> size, data |-> data]

do_get_blob_size(f, blobid) ==
  IF get_self(f, blobid) # blobid
  THEN [status |-> "BlobNotFound", size |-> 0, data |-> <<>>]
  ELSE [status |-> "ok", size |-> get_size(f, blobid), data |-> <<>>]

\* --------------------------------------------------------------- do_erase
\* variant: the run counts as empty only when free_bytes reaches the whole
\* run, page overhead included
do_erase_whole_run(f, lbp, runs, blobid) ==
  IF get_self(f, blobid) # blobid
  THEN [status |-> "BlobNotFound", f |-> f, lbp |-> lbp, runs |-> runs,
        released |-> FALSE]
  ELSE LET pa == PageId(blobid)
           alloc_size == get_alloc_size(f, blobid)
           f1 == set_free_bytes(f, pa, U32(get_free_bytes(f, pa) + alloc_size))
       IN IF get_free_bytes(f1, pa) = U32(get_num_pages(f1, pa) * PageSize)
          THEN [status |-> "ok", f |-> initialize(f1, pa), lbp |-> 0,
                runs |-> del(runs, pa \div PageSize, get_num_pages(f1, pa)),
                released |-> TRUE]
          ELSE [status |-> "ok",
                f |-> add_to_freelist(f1, pa, U32(blobid - pa), alloc_size),
                lbp |-> lbp, runs |-> runs, released |-> FALSE]

\* variant: a failed lookup also drops the last_blob_page hint
do_erase_drops_hint(f, lbp, runs, blobid) ==
  IF get_self(f, blobid) # blobid
  THEN [status |-> "BlobNotFound", f |-> f, lbp |-> 0, runs |-> runs,
        released |-> FALSE]
  ELSE LET pa == PageId(blobid)
           alloc_size == get_alloc_size(f, blobid)
           f1 == set_free_bytes(f, pa, U32(get_free_bytes(f, pa) + alloc_size))
       IN IF get_free_bytes(f1, pa)
               = U32((get_num_pages(f1, pa) * PageSize) - kPageOverhead)
          THEN [status |-> "ok", f |-> initialize(f1, pa), lbp |-> 0,
                runs |-> del(runs, pa \div PageSize, get_num_pages(f1, pa)),
                released |-> TRUE]
          ELSE [status |-> "ok",
                f |-> add_to_freelist(f1, pa, U32(blobid - pa), alloc_size),
                lbp |-> lbp, runs |-> runs, released |-> FALSE]

\* variant: releasing a run clears the hint only if the hint is that run
do_erase_keeps_other_hint(f, lbp, runs, blobid) ==
  IF get_self(f, blobid) # blobid
  THEN [status |-> "BlobNotFound", f |-> f, lbp |-> lbp, runs |-> runs,
        released |-> FALSE]
  ELSE LET pa == PageId(blobid)
           alloc_size == get_alloc_size(f, blobid)
           f1 == set_free_bytes(f, pa, U32(get_free_bytes(f, pa) + alloc_size))
       IN IF get_free_bytes(f1, pa)
               = U32((get_num_pages(f1, pa) * PageSize) - kPageOverhead)
          THEN [status |-> "ok", f |-> initialize(f1, pa),
                lbp |-> IF lbp = pa \div PageSize THEN 0 ELSE lbp,
                runs |-> del(runs, pa \div PageSize, get_num_pages(f1, pa)),
                released |-> TRUE]
          ELSE [status |-> "ok",
                f |-> add_to_freelist(f1, pa, U32(blobid - pa), alloc_size),
                lbp |-> lbp, runs |-> runs, released |-> FALSE]

do_erase(f, lbp, runs, blobid) ==
  IF get_self(f, blobid) # blobid
  THEN [status |-> "BlobNotFound", f |-> f, lbp |-> lbp, runs |-> runs,
        released |-> FALSE]
  ELSE LET pa == PageId(blobid)
           alloc_size == get_alloc_size(f, blobid)
           f1 == set_free_bytes(f, pa, U32(get_free_bytes(f, pa) + alloc_size))
       IN IF get_free_bytes(f1, pa)
               = U32((get_num_pages(f1, pa) * PageSize) - kPageOverhead)
          THEN [status |-> "ok", f |-> initialize(f1, pa), lbp |-> 0,
                runs |-> del(runs, pa \div PageSize, get_num_pages(f1, pa)),
                released |-> TRUE]
          ELSE [status |-> "ok",
                f |-> add_to_freelist(f1, pa, U32(blobid - pa), alloc_size),
                lbp |-> lbp, runs |-> runs, released |-> FALSE]

\* ----------------------------------------------------------- do_overwrite
\* variant: the tail of a shrunk blob goes to the freelist but free_bytes
\* is not increased
OverwriteInPlace_no_free_bytes(f, old_blobid, rec, flags, alloc_size) ==
  LET pa == PageId(old_blobid)
      old_alloc == get_alloc_size(f, old_blobid)
      header == BlobHeaderWords(get_self(f, old_blobid), rec.size, alloc_size, 0)
      f1 == IF flags.partial /\ rec.partial_offset # 0
            THEN write_chunks(write_chunks(f, old_blobid, header),
                   old_blobid + SizeofBlobHeader + rec.partial_offset,
                   SubSeq(rec.data, 1, rec.partial_size))
            ELSE write_chunks(f, old_blobid,
                   header \o SubSeq(rec.data, 1,
                      IF flags.partial THEN rec.partial_size ELSE rec.size))
      f2 == IF alloc_size < old_alloc
            THEN add_to_freelist(f1, pa, U32(U32(old_blobid + alloc_size) - pa),
                   U32(old_alloc - alloc_size))
            ELSE f1
      crc32 == IF flags.partial THEN 0 ELSE MurmurHash3_x86_32(rec.data)
  IN IF get_num_pages(f2, pa) > 1 /\ crc
     THEN set_freelist_offset(f2, pa, 0, crc32) ELSE f2

\* variant: the tail region of a shrunk blob starts one word late
OverwriteInPlace_late_tail(f, old_blobid, rec, flags, alloc_size) ==
  LET pa == PageId(old_blobid)
      old_alloc == get_alloc_size(f, old_blobid)
      header == BlobHeaderWords(get_self(f, old_blobid), rec.size, alloc_size, 0)
      f1 == IF flags.partial /\ rec.partial_offset # 0
            THEN write_chunks(write_chunks(f, old_blobid, header),
                   old_blobid + SizeofBlobHeader + rec.partial_offset,
                   SubSeq(rec.data, 1, rec.partial_size))
            ELSE write_chunks(f, old_blobid,
                   header \o SubSeq(rec.data, 1,
                      IF flags.partial THEN rec.partial_size ELSE rec.size))
      f2 == IF alloc_size < old_alloc
            THEN add_to_freelist(
                   set_free_bytes(f1, pa,
                     U32(get_free_bytes(f1, pa) + U32(old_alloc - alloc_size))),
                   pa, U32(U32(old_blobid + alloc_size + 1) - pa),
                   U32(old_alloc - alloc_size))
            ELSE f1
      crc32 == IF flags.partial THEN 0 ELSE MurmurHash3_x86_32(rec.data)
  IN IF get_num_pages(f2, pa) > 1 /\ crc
     THEN set_freelist_offset(f2, pa, 0, crc32) ELSE f2

\* the in-place branch: the new record fits into the old allocation
OverwriteInPlace(f, old_blobid, rec, flags, alloc_size) ==
  LET pa == PageId(old_blobid)
      old_alloc == get_alloc_size(f, old_blobid)
      header == BlobHeaderWords(get_self(f, old_blobid), rec.size, alloc_size, 0)
      f1 == IF flags.partial /\ rec.partial_offset # 0
            THEN write_chunks(write_chunks(f, old_blobid, header),
                   old_blobid + SizeofBlobHeader + rec.partial_offset,
                   SubSeq(rec.data, 1, rec.partial_size))
            ELSE write_chunks(f, old_blobid,
                   header \o SubSeq(rec.data, 1,
                      IF flags.partial THEN rec.partial_size ELSE rec.size))
      f2 == IF alloc_size < old_alloc
            THEN add_to_freelist(
                   set_free_bytes(f1, pa,
                     U32(get_free_bytes(f1, pa) + U32(old_alloc - alloc_size))),
                   pa, U32(U32(old_blobid + alloc_size) - pa),
                   U32(old_alloc - alloc_size))
            ELSE f1
      crc32 == IF flags.partial THEN 0 ELSE MurmurHash3_x86_32(rec.data)
  IN IF get_num_pages(f2, pa) > 1 /\ crc
     THEN set_freelist_offset(f2, pa, 0, crc32) ELSE f2

\* variant: a record of exactly the old allocated size is relocated
Fits_strict(f, old_blobid, rec) ==
  U32(SizeofBlobHeader + rec.size) < get_alloc_size(f, old_blobid)

Fits(f, old_blobid, rec) ==
  U32(SizeofBlobHeader + rec.size) <= get_alloc_size(f, old_blobid)

\* the relocating branch: the new blob a is allocated, the old one erased
RelocateResult(a, e) ==
  [status |-> e.status, f |-> e.f, lbp |-> e.lbp, runs |-> e.runs,
   id |-> a.id, inplace |-> FALSE, released |-> e.released]

Relocate(a, old_blobid) ==
  RelocateResult(a, do_erase(a.f, a.lbp, a.runs, old_blobid))

do_overwrite(f, lbp, runs, old_blobid, rec, flags, np) ==
  LET alloc_size == U32(SizeofBlobHeader + rec.size) IN
  IF get_self(f, old_blobid) # old_blobid
  THEN [status |-> "BlobNotFound", f |-> f, lbp |-> lbp, runs |-> runs,
        id |-> 0, inplace |-> FALSE, released |-> FALSE]
  ELSE IF Fits(f, old_blobid, rec)
  THEN [status |-> "ok",
        f |-> OverwriteInPlace(f, old_blobid, rec, flags, alloc_size),
        lbp |-> lbp, runs |-> runs, id |-> get_self(f, old_blobid),
        inplace |-> TRUE, released |-> FALSE]
  ELSE Relocate(do_allocate(f, lbp, runs, rec, flags, np), old_blobid)

\* ----------------------------------------------------------------- inputs
\* Payload words carry the number of the operation that wrote them, so no
\* two operations write the same bytes.  A "const" buffer repeats one word
\* (the compressor shrinks it), a "varied" one alternates two.
Data(pattern, tag, n) ==
  [i \in 1..n |-> IF pattern = "const" THEN tag ELSE tag + (i % 2)]

Rec(size, pattern, tag) ==
  [size |-> size, data |-> Data(pattern, tag, size), partial_offset |-> 0,
   partial_size |-> 0]
PartialRec(size, off, psize, tag) ==
  [size |-> size, data |-> Data("varied", tag, psize), partial_offset |-> off,
   partial_size |-> psize]
\* a partial record as do_allocate's compressor sees it: compress() is
\* handed record->data with record->size, so it reads the psize words of the
\* caller's buffer and then the words that follow it in the caller's memory
PartialBuffer(size, off, psize, tag, beyond) ==
  [size |-> size,
   data |-> [i \in 1..size |-> IF i <= psize THEN tag ELSE beyond],
   partial_offset |-> off, partial_size |-> psize]
Flags(partial, nocompress) == [partial |-> partial, nocompress |-> nocompress]
NoFlags == Flags(FALSE, FALSE)
Request(rec, flags) == [rec |-> rec, flags |-> flags]

\* "small": records that share a page, many operations;
\* "large": records of one, two and three pages and partial writes;
\* "compress": a record compressor is configured.  HAM_PARTIAL is not used
\* together with compression (do_allocate, comment at the partial write);
\* "partial_compress": a caller that does pass HAM_PARTIAL to a database
\* with a record compressor.
SmallSizes == {0, 1, 2}
LargeSizes == {1, 12, 36}
\* <<size, partial_offset, partial_size>>
PartialShapes == {<<2, 1, 1>>, <<12, 0, 2>>, <<36, 17, 1>>}

Requests(tag) ==
  IF workload = "small"
  THEN {Request(Rec(n, "varied", tag), NoFlags) : n \in SmallSizes}
  ELSE IF workload = "large"
  THEN {Request(Rec(n, "varied", tag), NoFlags) : n \in LargeSizes}
       \cup {Request(PartialRec(sh[1], sh[2], sh[3], tag), Flags(TRUE, FALSE)) :
               sh \in PartialShapes}
  ELSE IF workload = "partial_compress"
  THEN {Request(Rec(2, "const", tag), NoFlags),
        Request(Rec(2, "varied", tag), NoFlags)}
       \cup {Request(PartialBuffer(2, 0, 1, tag, beyond), Flags(TRUE, FALSE)) :
               beyond \in {tag, tag + 1}}
  ELSE {Request(Rec(1, "varied", tag), NoFlags),
        Request(Rec(2, "const", tag), NoFlags),
        Request(Rec(2, "const", tag), Flags(FALSE, TRUE)),
        Request(Rec(2, "varied", tag), NoFlags),
        Request(Rec(12, "const", tag), NoFlags),
        Request(Rec(12, "varied", tag), NoFlags)}

\* operations of a run
Budget ==
  IF workload = "small" THEN MaxOps
  ELSE IF workload = "large" THEN MaxOps - 1
  ELSE MaxOps - 2

FullRead == [partial |-> FALSE, partial_offset |-> 0, partial_size |-> 0]
ReadFlags == {FullRead}
\* the windows of the Partial reads, as <<partial_offset, partial_size>>:
\* empty, inside a small blob, past its end, across a page boundary
PartialWindows == {<<0, 0>>, <<1, 1>>, <<2, 5>>, <<10, 5>>, <<14, 30>>}
PartialRead(w) ==
  [partial |-> TRUE, partial_offset |-> w[1], partial_size |-> w[2]]

\* ---------------------------------------------------------------- history
NoOp ==
  [op |-> "none", arg |-> 0, ret |-> 0, status |-> "ok", size |-> 0,
   alloc_size |-> 0, old_alloc |-> 0, page |-> 0, released |-> FALSE,
   inplace |-> FALSE, newrun |-> FALSE, partial |-> FALSE]
NoRead == [op |-> "none", id |-> 0, rf |-> FullRead, res |-> 0]

Push(e) == <<e, hist[1], hist[2]>>
Without(fn, id) == [x \in (DOMAIN fn) \ {id} |-> fn[x]]
With(fn, id, v) == [x \in (DOMAIN fn) \cup {id} |-> IF x = id THEN v ELSE fn[x]]
Written(rq, how) ==
  [rec |-> rq.rec, flags |-> rq.flags, how |-> how, mutated |-> FALSE]

\* ------------------------------------------------------------- DiskDevice
\* Sizes and addresses of the device are uint64_t; the model keeps the
\* wrap-around of that width on a narrower word.
Word == 1048576
U64(x) == x % Word

\* File::get_granularity(), in the units of the model
Granularity == 8
\* the factors DiskDevice::alloc compares the file size with
kSmallFile == 100
kMediumFile == 250
kLargeFile == 1000
\* the limit of an environment that sets one (the default is "no limit")
LimitBytes == 4100
NoLimit == Word - 1

MaxDevOps == 5
MaxThreads == 2

\* the state the constructor leaves
NewState ==
  [open |-> FALSE, mmapptr |-> 0, mapped_size |-> 0, file_size |-> 0,
   excess_at_end |-> 0]
\* a Page without a buffer
NoPage == [data |-> "none", address |-> 0, win |-> 0]
\* the file on disk, the mmap windows handed out so far (window w is the
\* w-th mmap call that succeeded), those still mapped and every munmap call
NoFile == [size |-> 0, nwin |-> 0, mapped |-> {}, munmaps |-> <<>>]
NoDevOp ==
  [op |-> "none", arg |-> 0, ret |-> 0, status |-> "ok", io |-> TRUE,
   pre |-> NewState, prepage |-> NoPage, preos |-> NoFile]
Configs ==
  [disable_mmap : BOOLEAN, file_size_limit_bytes : {LimitBytes, NoLimit},
   page_size_bytes : {PageSize}]
Idle == [pc |-> "idle", op |-> "none", arg |-> 0, io |-> TRUE, ret |-> 0]

\* the device of a run that only works on the blob pages
DevIdle ==
  /\ m_state = NewState
  /\ m_config = [disable_mmap |-> TRUE, file_size_limit_bytes |-> NoLimit,
                 page_size_bytes |-> PageSize]
  /\ os = NoFile
  /\ the_page = NoPage
  /\ dhist = NoDevOp
  /\ dops = 0
  /\ m_mutex = 0
  /\ thr = [t \in 1..MaxThreads |-> Idle]

\* ------------------------------------------------------------------- Init
Init ==
  /\ file = [a \in Addr |-> 0]
  /\ last_blob_page = 0
  /\ pm_runs = {}
  /\ workload \in {"small", "large", "compress"}
  /\ crc \in (IF workload = "small" THEN {FALSE} ELSE BOOLEAN)
  /\ compressor = (workload = "compress")
  /\ live = [x \in {} |-> 0]
  /\ known = {}
  /\ hist = <<NoOp, NoOp, NoOp>>
  /\ nops = 0
  /\ rres = NoRead
  /\ DevIdle

\* ---------------------------------------------------------------- actions
CanOperate == nops < Budget /\ rres = NoRead

Allocate ==
  /\ UNCHANGED devvars
  /\ CanOperate
  /\ \E rq \in Requests(nops + 1) :
     \E np \in NewPages(file, last_blob_page, pm_runs, rq.rec, rq.flags) :
     \E a \in {do_allocate(file, last_blob_page, pm_runs, rq.rec, rq.flags, np)} :
          /\ file' = a.f
          /\ last_blob_page' = a.lbp
          /\ pm_runs' = a.runs
          /\ live' = With(live, a.id, Written(rq, "allocate"))
          /\ known' = known \cup {a.id}
          /\ hist' = Push([NoOp EXCEPT !.op = "allocate", !.ret = a.id,
                             !.size = rq.rec.size, !.alloc_size = a.alloc_size,
                             !.page = a.page, !.newrun = a.newrun,
                             !.partial = rq.flags.partial])
  /\ nops' = nops + 1
  /\ UNCHANGED <<crc, compressor, rres, workload>>

\* the callers pass ids of live blobs; an id whose header no longer carries
\* it is answered with HAM_BLOB_NOT_FOUND
Erasable(id) == id \in DOMAIN live \/ get_self(file, id) # id

Erase ==
  /\ UNCHANGED devvars
  /\ CanOperate
  /\ \E id \in known :
       /\ Erasable(id)
       /\ \E e \in {do_erase(file, last_blob_page, pm_runs, id)} :
             /\ file' = e.f
             /\ last_blob_page' = e.lbp
             /\ pm_runs' = e.runs
             /\ live' = IF e.status = "ok" THEN Without(live, id) ELSE live
             /\ hist' = Push([NoOp EXCEPT !.op = "erase", !.arg = id,
                                !.status = e.status,
                                !.alloc_size = get_alloc_size(file, id),
                                !.page = id \div PageSize,
                                !.released = e.released])
  /\ nops' = nops + 1
  /\ UNCHANGED <<crc, compressor, known, rres, workload>>

Overwrite ==
  /\ UNCHANGED devvars
  /\ CanOperate
  /\ \E id \in known, rq \in Requests(nops + 1) :
       /\ Erasable(id)
       /\ \E np \in (IF get_self(file, id) = id /\ ~Fits(file, id, rq.rec)
                     THEN NewPages(file, last_blob_page, pm_runs, rq.rec,
                                   rq.flags)
                     ELSE {0}) :
          \E o \in {do_overwrite(file, last_blob_page, pm_runs, id, rq.rec,
                                rq.flags, np)} :
             /\ file' = o.f
             /\ last_blob_page' = o.lbp
             /\ pm_runs' = o.runs
             /\ live' = IF o.status = "ok"
                        THEN With(Without(live, id), o.id,
                               Written(rq, IF o.inplace THEN "overwrite"
                                           ELSE "allocate"))
                        ELSE live
             /\ known' = IF o.status = "ok" THEN known \cup {o.id} ELSE known
             /\ hist' = Push([NoOp EXCEPT !.op = "overwrite", !.arg = id,
                                !.ret = o.id, !.status = o.status,
                                !.size = rq.rec.size,
                                !.alloc_size = SizeofBlobHeader + rq.rec.size,
                                !.old_alloc = get_alloc_size(file, id),
                                !.page = o.id \div PageSize,
                                !.released = o.released,
                                !.inplace = o.inplace,
                                !.partial = rq.flags.partial])
  /\ nops' = nops + 1
  /\ UNCHANGED <<crc, compressor, rres, workload>>

Read ==
  /\ UNCHANGED devvars
  /\ rres = NoRead
  /\ \E id \in known, rf \in ReadFlags :
       rres' = [op |-> "read", id |-> id, rf |-> rf,
                res |-> do_read(file, id, rf)]
  /\ UNCHANGED <<file, last_blob_page, pm_runs, crc, compressor, live, known,
                 hist, nops, workload>>

\* do_read with HAM_PARTIAL
ReadPartial ==
  /\ UNCHANGED devvars
  /\ rres = NoRead
  /\ \E id \in known, w \in PartialWindows :
       rres' = [op |-> "read", id |-> id, rf |-> PartialRead(w),
                res |-> do_read(file, id, PartialRead(w))]
  /\ UNCHANGED <<file, last_blob_page, pm_runs, crc, compressor, live, known,
                 hist, nops, workload>>

GetBlobSize ==
  /\ UNCHANGED devvars
  /\ rres = NoRead
  /\ \E id \in known :
       rres' = [op |-> "get_blob_size", id |-> id, rf |-> FullRead,
                res |-> do_get_blob_size(file, id)]
  /\ UNCHANGED <<file, last_blob_page, pm_runs, crc, compressor, live, known,
                 hist, nops, workload>>

\* the caller takes the result of its read
Return ==
  /\ UNCHANGED devvars
  /\ rres # NoRead
  /\ rres' = NoRead
  /\ UNCHANGED <<file, last_blob_page, pm_runs, crc, compressor, live, known,
                 hist, nops, workload>>

\* a single bit of the stored payload of a multi-page blob flips on the
\* medium; one such fault per run
FlipBit(v, b) ==
  IF b = 0 THEN (IF v % 2 = 0 THEN v + 1 ELSE v - 1)
  ELSE (IF (v \div 2) % 2 = 0 THEN v + 2 ELSE v - 2)
MultiPage(f, id) == get_num_pages(f, PageId(id)) > 1
\* payload offsets that flip: the first word, the last word, and the first
\* word on the second page of the run
FlipOffsets(size) ==
  {o \in {0, size - 1, PageSize - kPageOverhead - SizeofBlobHeader} :
     o >= 0 /\ o < size}

Corrupt ==
  /\ UNCHANGED devvars
  /\ CanOperate
  /\ crc
  /\ \A b \in DOMAIN live : ~live[b].mutated
  /\ \E id \in DOMAIN live, bit \in {0, 1} :
       /\ MultiPage(file, id)
       /\ \E o \in FlipOffsets(get_size(file, id)) :
            LET a == id + SizeofBlobHeader + o
            IN /\ file' = [file EXCEPT ![a] = FlipBit(file[a], bit)]
               /\ live' = [live EXCEPT ![id].mutated = TRUE]
               /\ hist' = Push([NoOp EXCEPT !.op = "corrupt", !.arg = id,
                                  !.page = id \div PageSize])
  /\ nops' = nops + 1
  /\ UNCHANGED <<last_blob_page, pm_runs, crc, compressor, known, rres,
                 workload>>

Next ==
  \/ Allocate
  \/ Erase
  \/ Overwrite
  \/ Read
  \/ GetBlobSize
  \/ Return
  \/ Corrupt

Spec == Init /\ [][Next]_vars

\* the runs whose callers read with HAM_PARTIAL; partial I/O is not combined
\* with a record compressor
ReadInit == Init /\ workload # "compress"
ReadNext ==
  \/ Allocate
  \/ Erase
  \/ Overwrite
  \/ ReadPartial
  \/ Return
ReadSpec == ReadInit /\ [][ReadNext]_vars

TypeOK ==
  /\ last_blob_page \in 0..MaxPages
  /\ nops \in 0..MaxOps
  /\ known \subseteq Addr
  /\ DOMAIN live \subseteq known

\* ------------------------------------------------------------------ views
RunPages == {r[1] : r \in pm_runs}
\* the live blobs whose header lies on page p
BlobsOn(p) == {b \in DOMAIN live : b \div PageSize = p}
RECURSIVE SumAlloc(_, _)
SumAlloc(f, S) ==
  IF S = {} THEN 0
  ELSE LET b == CHOOSE x \in S : TRUE
       IN get_alloc_size(f, b) + SumAlloc(f, S \ {b})
Slots(f, pa) ==
  {i \in 0..(FreelistEntries - 1) : get_freelist_size(f, pa, i) # 0}
SlotEnd(f, pa, i) == get_freelist_offset(f, pa, i) + get_freelist_size(f, pa, i)
\* an operation (not a read) has just been performed
Stepped == nops' = nops + 1

\* --------------------------------------------------------------------- C1
\* C1: every live blob that a non-Partial allocate returned, and that was
\* not overwritten since, reads back: read succeeds, reports the size of
\* the allocated record and returns its bytes, whatever was done to other
\* blobs in between.
C1_ReadBack ==
  \A b \in DOMAIN live :
    (live[b].how = "allocate" /\ ~live[b].flags.partial /\ ~live[b].mutated)
      => LET r == do_read(file, b, FullRead)
         IN /\ r.status = "ok"
            /\ r.size = live[b].rec.size
            /\ r.data = live[b].rec.data

\* a live blob was read back after a later erase or overwrite of another blob
C1_Witness ==
  /\ rres.op = "read"
  /\ rres.id \in DOMAIN live
  /\ live[rres.id].how = "allocate"
  /\ ~live[rres.id].flags.partial
  /\ live[rres.id].rec.size > 0
  /\ rres.res.status = "ok"
  /\ hist[1].op \in {"erase", "overwrite"}
  /\ hist[1].arg # rres.id
  /\ hist[1].ret # rres.id
  /\ hist[2].op = "allocate"
  /\ hist[2].ret # rres.id

\* --------------------------------------------------------------------- C2
\* the integrity conditions over every slot of the freelist
IntegrityOf(f, pa) ==
  /\ get_num_pages(f, pa) > 0
  /\ get_free_bytes(f, pa) + kPageOverhead <= get_num_pages(f, pa) * PageSize
  /\ get_num_pages(f, pa) = 1 =>
       /\ SumSizes(f, pa, 0, FreelistEntries) <= get_free_bytes(f, pa)
       /\ \A i \in Slots(f, pa) : SlotEnd(f, pa, i) <= PageSize
       /\ \A i, j \in Slots(f, pa) :
            (i # j /\ get_freelist_offset(f, pa, i)
                        <= get_freelist_offset(f, pa, j))
              => SlotEnd(f, pa, i) <= get_freelist_offset(f, pa, j)

\* C2: every live page run passes the integrity check: num_pages > 0,
\* free_bytes + kPageOverhead <= num_pages * page_size, and on a single-page
\* run the non-empty freelist slots sum to at most free_bytes, do not
\* overlap and do not end past the page.
C2_Integrity ==
  \A p \in RunPages :
    /\ check_integrity(file, PageAddress(p)) = "ok"
    /\ IntegrityOf(file, PageAddress(p))

\* a single-page run with every freelist slot in use
C2_Witness ==
  \E p \in RunPages :
    /\ get_num_pages(file, PageAddress(p)) = 1
    /\ Cardinality(Slots(file, PageAddress(p))) = FreelistEntries
    /\ hist[1].op \in {"erase", "overwrite"}

BlobsInRun(lv, p, n) ==
  {b \in DOMAIN lv : b \div PageSize >= p /\ b \div PageSize < p + n}

\* what an erase of blob id (directly, or as the second half of a
\* relocating overwrite) must have done
EraseEffect(id, released) ==
  LET p == id \div PageSize
      pa == PageAddress(p)
      n == get_num_pages(file, pa)
  IN /\ released <=> (BlobsInRun(live', p, n) = {})
     /\ released =>
          /\ <<p, n>> \in pm_runs
          /\ <<p, n>> \notin pm_runs'
          /\ \A a \in pa..(pa + kPageOverhead - 1) : file'[a] = 0
     /\ ~released => <<p, n>> \in pm_runs'

C5_OverwriteId ==
  (hist[1].op = "overwrite" /\ hist[1].status = "ok") =>
    /\ (hist[1].ret = hist[1].arg)
         <=> (SizeofBlobHeader + hist[1].size <= hist[1].old_alloc)
    /\ hist[1].ret \in DOMAIN live
    /\ hist[1].ret # hist[1].arg =>
         /\ hist[1].arg \notin DOMAIN live
         /\ \/ hist[1].ret + get_alloc_size(file, hist[1].ret) <= hist[1].arg
            \/ hist[1].arg + hist[1].old_alloc <= hist[1].ret

\* an overwrite with a larger record moved the blob within its page
C5_Witness ==
  /\ hist[1].op = "overwrite"
  /\ hist[1].status = "ok"
  /\ hist[1].ret # hist[1].arg
  /\ hist[1].ret \div PageSize = hist[1].arg \div PageSize
  /\ ~hist[1].released

\* --------------------------------------------------------------------- C6
\* C6: after an overwrite that relocated the blob, the old blob is freed and
\* a read of the old id fails with BlobNotFound.
C6_OldIdNotFound ==
  (hist[1].op = "overwrite" /\ hist[1].status = "ok" /\ ~hist[1].inplace) =>
    /\ hist[1].arg \notin DOMAIN live
    /\ do_read(file, hist[1].arg, FullRead).status = "BlobNotFound"

\* --------------------------------------------------------------------- C7
\* A opened a single-page run, B of the same size followed on that run, and
\* A was erased just now (hist[3], hist[2], hist[1])
C7_Erased ==
  /\ hist[3].op = "allocate" /\ hist[3].newrun
  /\ hist[2].op = "allocate" /\ ~hist[2].newrun
  /\ hist[2].page = hist[3].page
  /\ hist[2].size = hist[3].size
  /\ hist[2].alloc_size = hist[3].alloc_size
  /\ hist[1].op = "erase" /\ hist[1].status = "ok"
  /\ hist[1].arg = hist[3].ret
  /\ get_num_pages(file, PageAddress(hist[3].page)) = 1

\* the slots that hold exactly the footprint of the erased blob
C7_Hole(f) ==
  LET pa == PageId(hist[1].arg) IN
  {i \in 0..(FreelistEntries - 1) :
     /\ get_freelist_offset(f, pa, i) = hist[1].arg - pa
     /\ get_freelist_size(f, pa, i) = hist[1].alloc_size}

\* B is still readable with its bytes and the freelist holds A's footprint
C7_AfterErase ==
  LET B == hist[2].ret IN
  /\ B \in DOMAIN live
  /\ do_read(file, B, FullRead).status = "ok"
  /\ ~live[B].flags.partial => do_read(file, B, FullRead).data = live[B].rec.data
  /\ C7_Hole(file) # {}

\* the next operation allocates a record of the same size
C7_SameSizeNext ==
  /\ Stepped
  /\ hist'[1].op = "allocate"
  /\ hist'[1].size = hist[3].size
  /\ hist'[1].alloc_size = hist[1].alloc_size

\* the allocation returned A's address and emptied the slot that held it
C7_Reused ==
  /\ hist'[1].ret = hist[1].arg
  /\ \A i \in C7_Hole(file) :
       /\ get_freelist_offset(file', PageId(hist[1].arg), i) = 0
       /\ get_freelist_size(file', PageId(hist[1].arg), i) = 0

\* C7 as claimed: ... and the next allocation of the same size returns A's
\* former address and clears that freelist slot.
C7_ReusesHole ==
  [][C7_Erased =>
       /\ C7_AfterErase
       /\ C7_SameSizeNext => C7_Reused]_vars

\* the hole is the first slot, in index order, that is large enough, and
\* the run is still the last blob page
C7_HoleIsFirstFit ==
  /\ last_blob_page = hist[1].page
  /\ \E i \in C7_Hole(file) : \A j \in 0..(i - 1) :
       get_freelist_size(file, PageId(hist[1].arg), j) < hist[1].alloc_size

\* C7 (amended): after allocating A as the first blob of a new single-page
\* run, then B of the same size on that run, and erasing A: B is still
\* readable with its bytes and the freelist holds a slot equal to A's
\* footprint; the next allocation of the same size returns A's former
\* address and clears that slot exactly when the run is still the last blob
\* page and no slot of lower index is large enough; otherwise it is served
\* from that earlier slot or from a new run.
C7_ReusesHoleIfFirstFit ==
  [][C7_Erased =>
       /\ C7_AfterErase
       /\ C7_SameSizeNext =>
            IF C7_HoleIsFirstFit THEN C7_Reused
            ELSE hist'[1].ret # hist[1].arg]_vars

\* A's hole was reused by the allocation that followed its erase
C7_Witness ==
  /\ hist[1].op = "allocate" /\ ~hist[1].newrun
  /\ hist[2].op = "erase" /\ hist[2].status = "ok"
  /\ hist[3].op = "allocate" /\ ~hist[3].newrun
  /\ hist[1].ret = hist[2].arg
  /\ hist[1].alloc_size = hist[2].alloc_size
  /\ hist[3].alloc_size = hist[2].alloc_size
  /\ hist[3].ret = hist[2].arg + hist[2].alloc_size
  /\ hist[2].arg = PageId(hist[2].arg) + kPageOverhead
  /\ hist[3].ret \in DOMAIN live

PartialImage(rec) ==
  Zeroes(rec.partial_offset)
    \o SubSeq(rec.data, 1, rec.partial_size)
    \o Zeroes(rec.size - rec.partial_offset - rec.partial_size)

\* C9: a blob allocated with HAM_PARTIAL (logical size S, slice of p bytes
\* at offset o) reads back in full as S bytes: zeroes in [0, o), the slice
\* in [o, o+p), zeroes in [o+p, S); also when the gaps span several pages.
C9_PartialAllocate ==
  \A b \in DOMAIN live :
    (live[b].how = "allocate" /\ live[b].flags.partial /\ ~live[b].mutated)
      => LET r == do_read(file, b, FullRead)
         IN /\ r.status = "ok"
            /\ r.size = live[b].rec.size
            /\ r.data = PartialImage(live[b].rec)

\* -------------------------------------------------------------------- C10
\* C10: with CRC enabled, a non-Partial read of a multi-page blob whose
\* checksum was stored (its last write was not Partial) and one bit of whose
\* stored payload was flipped fails with IntegrityViolated.
C10_BitFlipDetected ==
  \A b \in DOMAIN live :
    (crc /\ live[b].mutated /\ ~live[b].flags.partial /\ MultiPage(file, b))
      => do_read(file, b, FullRead).status = "IntegrityViolated"

\* a flipped bit in a fully written two-page blob was caught by a read
C10_Witness ==
  /\ crc
  /\ rres.op = "read"
  /\ rres.id \in DOMAIN live
  /\ live[rres.id].mutated
  /\ ~live[rres.id].flags.partial
  /\ get_num_pages(file, PageId(rres.id)) = 2
  /\ rres.res.status = "IntegrityViolated"

\* ===================================================================
\* DiskDevice
\* ===================================================================

\* ------------------------------------------------------------------ File
\* File::truncate
file_truncate(o, new_file_size) == [o EXCEPT !.size = new_file_size]
\* the kernel takes file sizes as a signed offset: it refuses the sizes of
\* the upper half of the unsigned range
OffsetOK(new_file_size) == new_file_size < Word \div 2
\* File::mmap of the whole file: a new window
file_mmap(o) ==
  [o EXCEPT !.nwin = o.nwin + 1, !.mapped = o.mapped \cup {o.nwin + 1}]
\* File::munmap
file_munmap(o, ptr) ==
  [o EXCEPT !.mapped = o.mapped \ {ptr}, !.munmaps = Append(o.munmaps, ptr)]
\* File::create leaves an empty file
file_create(o) == [o EXCEPT !.size = 0]

\* ------------------------------------------------------------------ Page
free_buffer(pg) == [pg EXCEPT !.data = "none", !.win = 0]
assign_mapped_buffer(pg, win, address) ==
  [data |-> "mapped", address |-> address, win |-> win]
assign_allocated_buffer(pg, address) ==
  [data |-> "heap", address |-> address, win |-> 0]

\* ------------------------------------------------------------ operations
DevResult(status, ret, st, o, pg) ==
  [status |-> status, ret |-> ret, st |-> st, os |-> o, page |-> pg]

create(st, o) == DevResult("ok", 0, [st EXCEPT !.open = TRUE], file_create(o),
                           NoPage)

\* an open that maps any file that is not empty
MapsFile_any_size(cfg, file_size) == ~cfg.disable_mmap /\ file_size # 0

\* open maps the file when mmap is not disabled and the file is not empty
\* and its size is a multiple of the granularity
MapsFile(cfg, file_size) ==
  /\ ~cfg.disable_mmap
  /\ ~(file_size = 0 \/ file_size % Granularity # 0)

\* mmap_ok: File::mmap succeeds; a File::mmap that fails leaves a null
\* pointer
open(st, cfg, o, mmap_ok) ==
  IF ~MapsFile(cfg, o.size)
  THEN DevResult("ok", 0, [st EXCEPT !.open = TRUE, !.file_size = o.size], o,
                 NoPage)
  ELSE IF mmap_ok
  THEN DevResult("ok", 1,
                 [st EXCEPT !.open = TRUE, !.file_size = o.size,
                            !.mapped_size = o.size, !.mmapptr = o.nwin + 1],
                 file_mmap(o), NoPage)
  ELSE DevResult("ok", 1,
                 [st EXCEPT !.open = TRUE, !.file_size = o.size,
                            !.mapped_size = o.size, !.mmapptr = 0],
                 o, NoPage)

close(st, o) ==
  DevResult("ok", 0, [st EXCEPT !.open = FALSE],
            IF st.mmapptr # 0 THEN file_munmap(o, st.mmapptr) ELSE o, NoPage)

\* a truncate that does not look at the limit
truncate_nolock_no_limit(st, cfg, o, new_file_size, io) ==
  IF ~io \/ ~OffsetOK(new_file_size)
  THEN DevResult("IoError", 0, st, o, NoPage)
  ELSE DevResult("ok", 0, [st EXCEPT !.file_size = new_file_size],
                 file_truncate(o, new_file_size), NoPage)

\* io: File::truncate succeeds
truncate_nolock(st, cfg, o, new_file_size, io) ==
  IF new_file_size > cfg.file_size_limit_bytes
  THEN DevResult("LimitsReached", 0, st, o, NoPage)
  ELSE IF ~io \/ ~OffsetOK(new_file_size)
  THEN DevResult("IoError", 0, st, o, NoPage)
  ELSE DevResult("ok", 0, [st EXCEPT !.file_size = new_file_size],
                 file_truncate(o, new_file_size), NoPage)

\* an excess that starts one threshold late
excess_for_late(file_size, requested_length) ==
  IF file_size < U64(requested_length * kMediumFile) THEN 0
  ELSE IF file_size < U64(requested_length * kLargeFile)
  THEN U64(requested_length * kSmallFile)
  ELSE U64(requested_length * kMediumFile)

\* the storage alloc reserves beyond the request when it grows the file
excess_for(file_size, requested_length) ==
  IF file_size < U64(requested_length * kSmallFile) THEN 0
  ELSE IF file_size < U64(requested_length * kMediumFile)
  THEN U64(requested_length * kSmallFile)
  ELSE IF file_size < U64(requested_length * kLargeFile)
  THEN U64(requested_length * kMediumFile)
  ELSE U64(requested_length * kLargeFile)

\* the growing branch of alloc, once truncate_nolock has returned t
Grown(st, address, excess, t) ==
  IF t.status # "ok" THEN [t EXCEPT !.st = st]
  ELSE [t EXCEPT !.ret = address, !.st.excess_at_end = excess]

Grow(st, cfg, o, requested_length, excess, io) ==
  Grown(st, st.file_size, excess,
        truncate_nolock(st, cfg, o,
                        U64(st.file_size + requested_length + excess), io))

alloc(st, cfg, o, requested_length, io) ==
  IF st.excess_at_end >= requested_length
  THEN DevResult("ok", U64(st.file_size - st.excess_at_end),
                 [st EXCEPT !.excess_at_end = @ - requested_length], o, NoPage)
  ELSE Grow(st, cfg, o, requested_length,
            excess_for(st.file_size, requested_length), io)

Reclaimed(t) ==
  IF t.status # "ok" THEN t ELSE [t EXCEPT !.st.excess_at_end = 0]

reclaim_space(st, cfg, o, io) ==
  IF st.excess_at_end > 0
  THEN Reclaimed(truncate_nolock(st, cfg, o,
                                 U64(st.file_size - st.excess_at_end), io))
  ELSE DevResult("ok", 0, st, o, NoPage)

is_mapped(st, file_offset, size) == U64(file_offset + size) <= st.mapped_size

\* a pread branch that gives every page a new buffer
WithBuffer_always_new(pg, address) == assign_allocated_buffer(pg, address)

\* the page after the pread branch of read_page has given it a buffer
WithBuffer(pg, address) ==
  IF pg.data = "none" THEN assign_allocated_buffer(pg, address) ELSE pg

\* io: File::pread succeeds
read_page(st, cfg, o, pg, address, io) ==
  IF address < st.mapped_size /\ st.mmapptr # 0
  THEN DevResult("ok", 0, st, o,
                 assign_mapped_buffer(free_buffer(pg), st.mmapptr, address))
  ELSE DevResult(IF io THEN "ok" ELSE "IoError", 0, st, o,
                 WithBuffer(pg, address))

\* alloc_page, once alloc has returned a
PageAllocated(pg, a) ==
  IF a.status # "ok" THEN [a EXCEPT !.page = pg]
  ELSE [a EXCEPT !.page = assign_allocated_buffer(pg, a.ret)]

alloc_page(st, cfg, o, pg, io) ==
  PageAllocated(pg, alloc(st, cfg, o, cfg.page_size_bytes, io))

free_page(st, o, pg) == DevResult("ok", 0, st, o, free_buffer(pg))

\* ---------------------------------------------------------------- inputs
\* the sizes of the files the device is opened on: none, a file that is not
\* a whole number of granules or of pages, and files at the thresholds of
\* the excess
InitialSizes == {0, 20, 24, 32, 1600, 4000, 16000}
TruncateSizes == {0, 20, 32, 5000}
AllocSizes == {PageSize, 2 * PageSize}
PageAddresses == {0, PageSize, 2 * PageSize}

DevInit ==
  /\ file = [a \in Addr |-> 0]
  /\ last_blob_page = 0
  /\ pm_runs = {}
  /\ workload = "small"
  /\ crc = FALSE
  /\ compressor = FALSE
  /\ live = [x \in {} |-> 0]
  /\ known = {}
  /\ hist = <<NoOp, NoOp, NoOp>>
  /\ nops = 0
  /\ rres = NoRead
  /\ m_state = NewState
  /\ m_config \in Configs
  /\ os \in {[NoFile EXCEPT !.size = n] : n \in InitialSizes}
  /\ the_page = NoPage
  /\ dhist = NoDevOp
  /\ dops = 0
  /\ m_mutex = 0
  /\ thr = [t \in 1..MaxThreads |-> Idle]

\* --------------------------------------------------------------- actions
DevCanOperate == dops < MaxDevOps

DevOp(op, arg, io, r) ==
  [op |-> op, arg |-> arg, ret |-> r.ret, status |-> r.status, io |-> io,
   pre |-> m_state, prepage |-> the_page, preos |-> os]

\* the operation returns r; only the operations on a Page change the page
Returns(op, arg, io, r, on_page) ==
  /\ m_state' = r.st
  /\ os' = r.os
  /\ the_page' = (IF on_page THEN r.page ELSE the_page)
  /\ dhist' = DevOp(op, arg, io, r)
  /\ dops' = dops + 1
  /\ UNCHANGED <<m_config, m_mutex, thr>>
  /\ UNCHANGED blobvars

DevCreate ==
  /\ DevCanOperate
  /\ ~m_state.open
  /\ Returns("create", 0, TRUE, create(m_state, os), FALSE)

DevOpen ==
  /\ DevCanOperate
  /\ ~m_state.open
  /\ \E mmap_ok \in BOOLEAN :
       Returns("open", 0, mmap_ok, open(m_state, m_config, os, mmap_ok), FALSE)

DevClose ==
  /\ DevCanOperate
  /\ Returns("close", 0, TRUE, close(m_state, os), FALSE)

DevTruncate ==
  /\ DevCanOperate
  /\ m_state.open
  /\ \E n \in TruncateSizes, io \in BOOLEAN :
       Returns("truncate", n, io,
               truncate_nolock(m_state, m_config, os, n, io), FALSE)

DevAlloc ==
  /\ DevCanOperate
  /\ m_state.open
  /\ \E n \in AllocSizes, io \in BOOLEAN :
       Returns("alloc", n, io, alloc(m_state, m_config, os, n, io), FALSE)

DevReclaimSpace ==
  /\ DevCanOperate
  /\ m_state.open
  /\ \E io \in BOOLEAN :
       Returns("reclaim_space", 0, io,
               reclaim_space(m_state, m_config, os, io), FALSE)

DevReadPage ==
  /\ DevCanOperate
  /\ m_state.open
  /\ \E address \in PageAddresses, io \in BOOLEAN :
       Returns("read_page", address, io,
               read_page(m_state, m_config, os, the_page, address, io), TRUE)

DevAllocPage ==
  /\ DevCanOperate
  /\ m_state.open
  /\ \E io \in BOOLEAN :
       Returns("alloc_page", 0, io,
               alloc_page(m_state, m_config, os, the_page, io), TRUE)

DevFreePage ==
  /\ DevCanOperate
  /\ the_page.data # "none"
  /\ Returns("free_page", 0, TRUE, free_page(m_state, os, the_page), TRUE)

DevNext ==
  \/ DevCreate
  \/ DevOpen
  \/ DevClose
  \/ DevTruncate
  \/ DevAlloc
  \/ DevReclaimSpace
  \/ DevReadPage
  \/ DevAllocPage
  \/ DevFreePage

DevSpec == DevInit /\ [][DevNext]_vars

DevTypeOK ==
  /\ m_state.file_size \in 0..(Word - 1)
  /\ m_state.excess_at_end \in 0..(Word - 1)
  /\ m_state.mapped_size \in 0..(Word - 1)
  /\ m_state.mmapptr \in 0..os.nwin
  /\ the_page.data \in {"none", "heap", "mapped"}
  /\ dops \in 0..MaxDevOps

\* ----------------------------------------------------------- the threads
\* Each public operation of the device is a call of a thread.  The ones
\* that open with "ScopedSpinlock lock(m_mutex)" take the lock, work on
\* m_state and give the lock back when they return; is_mapped works on
\* m_state as it is called.  A thread is "idle" outside the device,
\* "locked" once it holds the lock, "accessed" once it has read or written
\* m_state, and at "page" when alloc_page has left alloc.
LockedOps ==
  {"open", "close", "truncate", "alloc", "reclaim_space", "read_page",
   "alloc_page"}

\* the calls a thread can make on the device as it is
Calls ==
  IF ~m_state.open
  THEN {[Idle EXCEPT !.op = "open", !.io = io] : io \in BOOLEAN}
  ELSE {[Idle EXCEPT !.op = "close"], [Idle EXCEPT !.op = "reclaim_space"],
        [Idle EXCEPT !.op = "alloc_page"]}
       \cup {[Idle EXCEPT !.op = "truncate", !.arg = n] : n \in {0, 32}}
       \cup {[Idle EXCEPT !.op = "alloc", !.arg = PageSize]}
       \cup {[Idle EXCEPT !.op = "read_page", !.arg = a, !.io = io] :
               a \in {0, PageSize}, io \in BOOLEAN}

\* what the body of the operation does to the device, under the lock
Body(c) ==
  CASE c.op = "open" -> open(m_state, m_config, os, c.io)
    [] c.op = "close" -> close(m_state, os)
    [] c.op = "truncate" -> truncate_nolock(m_state, m_config, os, c.arg, c.io)
    [] c.op = "alloc" -> alloc(m_state, m_config, os, c.arg, c.io)
    [] c.op = "alloc_page" ->
         alloc(m_state, m_config, os, m_config.page_size_bytes, c.io)
    [] c.op = "reclaim_space" -> reclaim_space(m_state, m_config, os, c.io)
    [] c.op = "read_page" ->
         read_page(m_state, m_config, os, the_page, c.arg, c.io)

ConcInit ==
  /\ DevInit
  /\ os.size \in {32, 1600}
  /\ ~m_config.disable_mmap

\* ScopedSpinlock lock(m_mutex): the thread spins until the lock is free
Acquire(t) ==
  /\ thr[t].pc = "idle"
  /\ dops < MaxDevOps
  /\ m_mutex = 0
  /\ m_mutex' = t
  /\ dops' = dops + 1
  /\ \E c \in Calls : thr' = [thr EXCEPT ![t] = [c EXCEPT !.pc = "locked"]]
  /\ UNCHANGED <<m_state, m_config, os, the_page, dhist>>
  /\ UNCHANGED blobvars

\* the body of a locked operation
Access(t) ==
  /\ thr[t].pc = "locked"
  /\ \E r \in {Body(thr[t])} :
       /\ m_state' = r.st
       /\ os' = r.os
       /\ the_page' = (IF thr[t].op = "read_page" THEN r.page ELSE the_page)
       /\ dhist' = DevOp(thr[t].op, thr[t].arg, thr[t].io, r)
       /\ thr' = [thr EXCEPT ![t].pc = "accessed", ![t].ret = r.ret,
                              ![t].io = (r.status = "ok")]
  /\ UNCHANGED <<m_config, dops, m_mutex>>
  /\ UNCHANGED blobvars

\* the end of the scope of the lock
Release(t) ==
  /\ thr[t].pc = "accessed"
  /\ thr[t].op \in LockedOps
  /\ m_mutex' = 0
  /\ thr' = [thr EXCEPT ![t] =
               IF thr[t].op = "alloc_page" /\ thr[t].io
               THEN [thr[t] EXCEPT !.pc = "page"] ELSE Idle]
  /\ UNCHANGED <<m_state, m_config, os, the_page, dhist, dops>>
  /\ UNCHANGED blobvars

\* alloc_page after its call of alloc: the page gets its address and a
\* buffer from the heap
AssignPage(t) ==
  /\ thr[t].pc = "page"
  /\ the_page' = assign_allocated_buffer(the_page, thr[t].ret)
  /\ thr' = [thr EXCEPT ![t] = Idle]
  /\ UNCHANGED <<m_state, m_config, os, dhist, dops, m_mutex>>
  /\ UNCHANGED blobvars

\* is_mapped: the comparison with m_state.mapped_size
IsMapped(t) ==
  /\ thr[t].pc = "idle"
  /\ dops < MaxDevOps
  /\ dops' = dops + 1
  /\ \E a \in {0, PageSize} :
       thr' = [thr EXCEPT ![t] =
                 [pc |-> "accessed", op |-> "is_mapped", arg |-> a,
                  io |-> TRUE,
                  ret |-> IF is_mapped(m_state, a, PageSize) THEN 1 ELSE 0]]
  /\ UNCHANGED <<m_state, m_config, os, the_page, dhist, m_mutex>>
  /\ UNCHANGED blobvars

IsMappedReturns(t) ==
  /\ thr[t].pc = "accessed"
  /\ thr[t].op = "is_mapped"
  /\ thr' = [thr EXCEPT ![t] = Idle]
  /\ UNCHANGED <<m_state, m_config, os, the_page, dhist, dops, m_mutex>>
  /\ UNCHANGED blobvars

ConcNext ==
  \/ \E t \in 1..MaxThreads : Acquire(t)
  \/ \E t \in 1..MaxThreads : Access(t)
  \/ \E t \in 1..MaxThreads : Release(t)
  \/ \E t \in 1..MaxThreads : AssignPage(t)
  \/ \E t \in 1..MaxThreads : IsMapped(t)
  \/ \E t \in 1..MaxThreads : IsMappedReturns(t)

ConcSpec == ConcInit /\ [][ConcNext]_vars

\* C14: every public operation of the device reads and writes the device
\* state only while it holds the spinlock: a thread that has just accessed
\* m_state is the holder of m_mutex.
C14_LockHeld ==
  \A t \in 1..MaxThreads : thr[t].pc = "accessed" => m_mutex = t

\* one thread holds the lock inside an operation that changes m_state
\* while another has read m_state.mapped_size in is_mapped
C14_Race ==
  \E t, u \in 1..MaxThreads :
    /\ thr[t].pc = "accessed"
    /\ thr[t].op = "is_mapped"
    /\ thr[u].pc = "locked"
    /\ thr[u].op = "open"
    /\ m_mutex = u

\* ------------------------------------------- reads through the mmap window
\* do_read hands out a pointer into the page instead of a copy when the
\* caller does not force a copy, the device reports the blob as mapped, the
\* blob is not compressed and the record has no buffer of the user's
zero_copy(f, st, blobid, rf, force_deep_copy, user_alloc) ==
  /\ ~force_deep_copy
  /\ is_mapped(st, blobid, effective_size(U32(get_size(f, blobid)), rf))
  /\ get_flags(f, blobid) % 2 # kIsCompressed
  /\ ~user_alloc

\* the address read_chunk is asked for
chunk_address(blobid, rf) ==
  blobid + SizeofBlobHeader + (IF rf.partial THEN rf.partial_offset ELSE 0)

\* the files the environment is opened on: the header page and one or all
\* of the blob pages
ZcSizes == {2 * PageSize, (MaxPages + 1) * PageSize}
ZcReads == {FullRead, PartialRead(<<1, 1>>), PartialRead(<<10, 5>>)}
MaxZcAllocs == 2

ZcInit ==
  /\ file = [a \in Addr |-> 0]
  /\ last_blob_page = 0
  /\ pm_runs = {}
  /\ workload \in {"large", "compress"}
  /\ crc = FALSE
  /\ compressor = (workload = "compress")
  /\ live = [x \in {} |-> 0]
  /\ known = {}
  /\ hist = <<NoOp, NoOp, NoOp>>
  /\ nops = 0
  /\ rres = NoRead
  /\ m_state = NewState
  /\ m_config \in Configs
  /\ os \in {[NoFile EXCEPT !.size = n] : n \in ZcSizes}
  /\ the_page = NoPage
  /\ dhist = NoDevOp
  /\ dops = 0
  /\ m_mutex = 0
  /\ thr = [t \in 1..MaxThreads |-> Idle]

ZcOpen ==
  /\ nops = 0
  /\ DevOpen

ZcAllocate ==
  /\ m_state.open
  /\ nops < MaxZcAllocs
  /\ Allocate

\* do_read, with the flags that choose between the pointer and the copy
ZcRead ==
  /\ m_state.open
  /\ rres = NoRead
  /\ \E id \in known, rf \in ZcReads, deep \in BOOLEAN, user \in BOOLEAN :
       rres' = [op |-> "read", id |-> id, rf |-> rf,
                res |-> do_read(file, id, rf), deep |-> deep, user |-> user,
                zc |-> zero_copy(file, m_state, id, rf, deep, user),
                ptr |-> chunk_address(id, rf)]
  /\ UNCHANGED <<file, last_blob_page, pm_runs, crc, compressor, live, known,
                 hist, nops, workload>>
  /\ UNCHANGED devvars

ZcNext ==
  \/ ZcOpen
  \/ ZcAllocate
  \/ ZcRead
  \/ Return

ZcSpec == ZcInit /\ [][ZcNext]_vars

\* the bytes of a record from offset off on, n of them
Slice(data, off, n) == [i \in 1..n |-> data[off + i]]

ListedExcess(file_size, size) ==
  IF file_size < 100 * size THEN 0
  ELSE IF file_size < 250 * size THEN 100 * size
  ELSE IF file_size < 1000 * size THEN 250 * size
  ELSE 1000 * size

\* C12: an alloc(size) that succeeds with excess_at_end >= size returns
\* file_size - excess_at_end (in the unsigned arithmetic of the device),
\* takes size off excess_at_end and leaves the file size as it was;
\* otherwise it returns the old file_size, grows the
\* file to file_size + size + excess and sets excess_at_end to excess, with
\* excess 0, 100*size, 250*size or 1000*size as the old file_size is below
\* 100*size, below 250*size, below 1000*size or not.
C12_Alloc ==
  (dhist.op = "alloc" /\ dhist.status = "ok")
    => IF dhist.pre.excess_at_end >= dhist.arg
       THEN /\ dhist.ret = U64(dhist.pre.file_size - dhist.pre.excess_at_end)
            /\ m_state.excess_at_end = dhist.pre.excess_at_end - dhist.arg
            /\ m_state.file_size = dhist.pre.file_size
            /\ os.size = dhist.preos.size
       ELSE /\ dhist.ret = dhist.pre.file_size
            /\ m_state.excess_at_end
                 = ListedExcess(dhist.pre.file_size, dhist.arg)
            /\ m_state.file_size
                 = dhist.pre.file_size + dhist.arg
                     + ListedExcess(dhist.pre.file_size, dhist.arg)
            /\ os.size = m_state.file_size

\* an alloc has carved a page from the excess that an earlier alloc on a
\* file of 250 to 1000 times the page size had reserved
C12_Witness ==
  /\ dhist.op = "alloc"
  /\ dhist.status = "ok"
  /\ dhist.arg = PageSize
  /\ dhist.pre.excess_at_end = 250 * PageSize
  /\ dhist.pre.file_size = 4000 + PageSize + 250 * PageSize
  /\ dhist.ret = 4000 + PageSize
  /\ m_state.excess_at_end = 249 * PageSize

\* the size a growing alloc asks the file to have
GrownSize(st, size) == st.file_size + size + ListedExcess(st.file_size, size)

\* C13: a truncate to more than file_size_limit_bytes fails with
\* LimitsReached, and so does an alloc that has to grow the file when the
\* grown size, excess included, is above the limit; after such a failure
\* the cached file_size and excess_at_end (and the file) are what they
\* were; after a truncate that succeeds the cached file_size is the new
\* size.
C13_Limit ==
  /\ (dhist.op = "truncate" /\ dhist.arg > m_config.file_size_limit_bytes)
       => dhist.status = "LimitsReached"
  /\ (/\ dhist.op = "alloc"
      /\ dhist.pre.excess_at_end < dhist.arg
      /\ GrownSize(dhist.pre, dhist.arg) > m_config.file_size_limit_bytes)
       => dhist.status = "LimitsReached"
  /\ (dhist.op \in {"truncate", "alloc"} /\ dhist.status = "LimitsReached")
       => /\ m_state.file_size = dhist.pre.file_size
          /\ m_state.excess_at_end = dhist.pre.excess_at_end
          /\ os.size = dhist.preos.size
  /\ (dhist.op = "truncate" /\ dhist.status = "ok")
       => m_state.file_size = dhist.arg

\* an alloc of one page failed because of the excess alone: the file with
\* the page is below the limit, the file with the page and the excess is not
C13_Witness ==
  /\ dhist.op = "alloc"
  /\ dhist.status = "LimitsReached"
  /\ dhist.pre.file_size + dhist.arg <= m_config.file_size_limit_bytes
  /\ dhist.pre.excess_at_end < dhist.arg
  /\ m_state = dhist.pre

\* the latest mmap of the device failed: open has set the size of a window
\* and there is no pointer to one
MapFailed(st) == st.mapped_size > 0 /\ st.mmapptr = 0

\* C15: open succeeds, and it attempts to mmap the file exactly when mmap
\* is not disabled and the file size is not zero and is a multiple of the
\* granularity; when the attempt has failed, a later read_page of a page
\* that holds no borrow goes to pread and leaves the page with a buffer
\* from the heap.
C15_OpenMaps ==
  /\ dhist.op = "open"
       => /\ dhist.status = "ok"
          /\ m_state.open
          /\ (dhist.ret = 1) <=>
               (/\ ~m_config.disable_mmap
                /\ dhist.preos.size # 0
                /\ dhist.preos.size % Granularity = 0)
          /\ (dhist.ret = 1 /\ ~dhist.io) => MapFailed(m_state)
  /\ (/\ dhist.op = "read_page"
      /\ MapFailed(dhist.pre)
      /\ dhist.prepage.data # "mapped")
       => /\ the_page.data = "heap"
          /\ dhist.status = (IF dhist.io THEN "ok" ELSE "IoError")

\* after an mmap that failed a page inside the file was read with pread
C15_Witness ==
  /\ dhist.op = "read_page"
  /\ MapFailed(dhist.pre)
  /\ dhist.arg + PageSize <= dhist.pre.mapped_size
  /\ dhist.prepage.data = "none"
  /\ dhist.status = "ok"
  /\ the_page.data = "heap"
  /\ the_page.address = dhist.arg

\* the windows that were unmapped more than once
UnmappedAgain(o) ==
  {o.munmaps[i] : i \in {j \in 1..Len(o.munmaps) :
                           \E k \in 1..(j - 1) : o.munmaps[k] = o.munmaps[j]}}

\* C16: close unmaps the window, if there is one, and closes the file; a
\* second close performs no further munmap.
C16_CloseOnce ==
  /\ dhist.op = "close"
       => /\ ~m_state.open
          /\ (dhist.pre.mmapptr \in dhist.preos.mapped
                => /\ dhist.pre.mmapptr \notin os.mapped
                   /\ Len(os.munmaps) = Len(dhist.preos.munmaps) + 1)
  /\ (dhist.op = "close" /\ ~dhist.pre.open)
       => os.munmaps = dhist.preos.munmaps
  /\ UnmappedAgain(os) = {}

\* C17: after read_page(page, addr), if addr + page_size <= mapped_size the
\* page has dropped its heap buffer and borrows the mmap window at addr;
\* otherwise the page has a buffer from the heap, never a borrow, and the
\* page was read into it with pread.
C17_ReadPage ==
  dhist.op = "read_page"
    => IF dhist.arg + m_config.page_size_bytes <= dhist.pre.mapped_size
       THEN /\ dhist.status = "ok"
            /\ the_page.data = "mapped"
            /\ the_page.win \in os.mapped
            /\ the_page.address = dhist.arg
       ELSE /\ the_page.data = "heap"
            /\ dhist.status = (IF dhist.io THEN "ok" ELSE "IoError")

\* a page that starts inside the window and ends outside was borrowed
C17_Straddle ==
  /\ dhist.op = "read_page"
  /\ dhist.arg < dhist.pre.mapped_size
  /\ dhist.arg + m_config.page_size_bytes > dhist.pre.mapped_size
  /\ the_page.data = "mapped"
  /\ the_page.win \in os.mapped

\* read_page or alloc_page has made an I/O call, and the call has failed
PageIoFailed ==
  /\ ~dhist.io
  /\ \/ /\ dhist.op = "read_page"
        /\ ~(dhist.arg < dhist.pre.mapped_size /\ dhist.pre.mmapptr # 0)
     \/ /\ dhist.op = "alloc_page"
        /\ dhist.pre.excess_at_end < m_config.page_size_bytes
        /\ GrownSize(dhist.pre, m_config.page_size_bytes)
             <= m_config.file_size_limit_bytes

\* C18 as stated: when an I/O call of read_page or alloc_page fails, the
\* operation fails and the page is left with the buffer and the address it
\* had.
C18_PageKept ==
  PageIoFailed => (dhist.status # "ok" /\ the_page = dhist.prepage)

\* C18, amended: when an I/O call of read_page or alloc_page fails, the
\* operation fails; the page is left with the buffer and the address it
\* had, except that a page that came to read_page without a buffer has
\* been given a buffer from the heap and the address that was read.
C18_PageKeptUnlessNew ==
  PageIoFailed
    => /\ dhist.status # "ok"
       /\ the_page =
            (IF dhist.op = "read_page" /\ dhist.prepage.data = "none"
             THEN assign_allocated_buffer(dhist.prepage, dhist.arg)
             ELSE dhist.prepage)

\* the pread of a page that had a heap buffer for another address failed
C18_Witness ==
  /\ PageIoFailed
  /\ dhist.op = "read_page"
  /\ dhist.status = "IoError"
  /\ dhist.prepage.data = "heap"
  /\ dhist.prepage.address # dhist.arg
  /\ the_page = dhist.prepage

\* a further reclaim_space would change nothing
ReclaimIsNoOp ==
  /\ reclaim_space(m_state, m_config, os, TRUE).st = m_state
  /\ reclaim_space(m_state, m_config, os, TRUE).os = os

\* C20: after a reclaim_space whose file operation does not fail, if
\* excess_at_end was above 0 the file has been truncated to file_size -
\* excess_at_end and excess_at_end is 0, and if it was 0 nothing has
\* changed; a second reclaim_space changes nothing.
C20_Reclaim ==
  (dhist.op = "reclaim_space" /\ dhist.io)
    => /\ IF dhist.pre.excess_at_end > 0
          THEN /\ m_state.file_size
                    = dhist.pre.file_size - dhist.pre.excess_at_end
               /\ os.size = m_state.file_size
               /\ m_state.excess_at_end = 0
          ELSE m_state = dhist.pre /\ os = dhist.preos
       /\ ReclaimIsNoOp

\* a read that returned bytes
ReadReturned == rres.op = "read" /\ rres.res.status = "ok" /\ rres.res.size > 0

\* C19: a read takes the zero-copy path exactly when ForceDeepCopy is not
\* set, the device reports [blob_id, blob_id + blobsize) as mapped, the
\* blob is not compressed and the record has no user buffer; the pointer
\* it returns starts at blob_id + sizeof(BlobHeader), plus partial_offset
\* for a Partial read, and the blobsize bytes from there lie inside the
\* mmap window of the device.
C19_ZeroCopy ==
  ReadReturned
    => /\ rres.zc <=>
            (/\ ~rres.deep
             /\ rres.id + Len(rres.res.data) <= m_state.mapped_size
             /\ get_flags(file, rres.id) % 2 # kIsCompressed
             /\ ~rres.user)
       /\ rres.zc =>
            /\ rres.ptr = rres.id + SizeofBlobHeader
                            + (IF rres.rf.partial THEN rres.rf.partial_offset
                               ELSE 0)
            /\ m_state.mmapptr \in os.mapped
            /\ rres.ptr + Len(rres.res.data) <= m_state.mapped_size

\* the zero-copy path was taken on a device whose mmap had failed
C19_NoWindow ==
  /\ ReadReturned
  /\ rres.zc
  /\ m_state.mmapptr = 0

\* the zero-copy path was taken for bytes that end behind the window
C19_PastWindow ==
  /\ ReadReturned
  /\ rres.zc
  /\ m_state.mmapptr \in os.mapped
  /\ rres.ptr + Len(rres.res.data) > m_state.mapped_size

\* the slots of the freelist that are not empty, as <<offset, size>>
SlotPairs(f, pa) ==
  {<<get_freelist_offset(f, pa, i), get_freelist_size(f, pa, i)>> :
     i \in Slots(f, pa)}
\* ceil(n / d)
CeilDiv(n, d) == (n + d - 1) \div d

\* C21: after an allocate that could not use the last blob page, the new
\* run has num_pages = ceil((alloc_size + kPageOverhead) / page_size) pages,
\* the blob lies at page.address + kPageOverhead, the run header holds
\* num_pages and free_bytes = num_pages * page_size - kPageOverhead -
\* alloc_size; a run of one page with a positive remainder has exactly one
\* freelist slot, (kPageOverhead + alloc_size, remainder), in slot 0, and a
\* run of several pages has no freelist slot.
C21_NewRun ==
  (hist[1].op = "allocate" /\ hist[1].newrun)
    => LET pa == PageAddress(hist[1].page)
           n == CeilDiv(hist[1].alloc_size + kPageOverhead, PageSize)
           rest == n * PageSize - kPageOverhead - hist[1].alloc_size
       IN /\ <<hist[1].page, n>> \in pm_runs
          /\ hist[1].ret = pa + kPageOverhead
          /\ get_num_pages(file, pa) = n
          /\ get_free_bytes(file, pa) = rest
          /\ (n = 1 /\ rest > 0)
               => /\ SlotPairs(file, pa)
                       = {<<kPageOverhead + hist[1].alloc_size, rest>>}
                  /\ Slots(file, pa) = {0}
          /\ (n > 1 \/ rest = 0) => Slots(file, pa) = {}

\* a second run was allocated for a record of one page because the
\* remainder of the last blob page was too small
C21_Witness ==
  /\ hist[1].op = "allocate"
  /\ hist[1].newrun
  /\ hist[2].op = "allocate"
  /\ hist[2].page # hist[1].page
  /\ get_num_pages(file, PageAddress(hist[1].page)) = 1
  /\ Slots(file, PageAddress(hist[1].page)) = {0}
  /\ Slots(file, PageAddress(hist[2].page)) # {}

\* the slots of the run at pa that can hold size words
Fitting(f, pa, size) ==
  {i \in 0..(FreelistEntries - 1) : get_freelist_size(f, pa, i) >= size}
\* slot i of the run at pa, as <<offset, size>>
SlotAt(f, pa, i) ==
  <<get_freelist_offset(f, pa, i), get_freelist_size(f, pa, i)>>
\* what alloc_from_freelist(header at pa, size) has to return and leave
TakesFirstFit(f, pa, size, r) ==
  IF get_num_pages(f, pa) > 1 \/ Fitting(f, pa, size) = {}
  THEN ~r.ok /\ r.f = f
  ELSE LET i == CHOOSE j \in Fitting(f, pa, size) :
                  \A k \in Fitting(f, pa, size) : j <= k
           old == SlotAt(f, pa, i)
       IN /\ r.ok
          /\ r.off = old[1]
          /\ SlotAt(r.f, pa, i)
               = (IF old[2] = size THEN <<0, 0>>
                  ELSE <<old[1] + size, old[2] - size>>)
          /\ \A a \in Addr : a # pa + 1 + i => r.f[a] = f[a]
          /\ SlotAt(r.f, pa, i)[1] >= 0
          /\ SlotAt(r.f, pa, i)[2] >= 0
          /\ SlotAt(r.f, pa, i)[1] + SlotAt(r.f, pa, i)[2] <= PageSize

\* C22: on the header of the last blob page, alloc_from_freelist takes the
\* first slot, in index order, whose size is >= the request: a slot of
\* exactly that size is cleared to (0, 0), a larger one gives its old
\* offset and becomes (old offset + size, old size - size); when no slot
\* fits or the run has more than one page it returns false and leaves the
\* header as it was.  The slot stays inside the page, its offset and size
\* not negative.
C22_FirstFit ==
  (last_blob_page # 0 /\ rres = NoRead)
    => \A size \in 1..PageSize :
         TakesFirstFit(file, PageAddress(last_blob_page), size,
           alloc_from_freelist(file, PageAddress(last_blob_page), size))

\* an allocate has taken the hole an erase had left, a slot of exactly its
\* size that is not the first slot of the page
C22_Witness ==
  /\ hist[1].op = "allocate"
  /\ ~hist[1].newrun
  /\ hist[2].op = "erase"
  /\ hist[1].ret = hist[2].arg
  /\ hist[1].alloc_size = hist[2].alloc_size
  /\ hist[1].ret # PageAddress(hist[1].page) + kPageOverhead

\* ---------------------------------------------------------------- C23
AllSlots == 0..(FreelistEntries - 1)
\* slot i of the header at pa holds pair in g, every other slot is as in f
OnlyChanged(f, g, pa, i, pair) ==
  /\ SlotAt(g, pa, i) = pair
  /\ \A j \in AllSlots \ {i} : SlotAt(g, pa, j) = SlotAt(f, pa, j)
\* the slots that the region (off, size) touches at either end
Abutting(f, pa, off, size) ==
  {i \in Slots(f, pa) : \/ off + size = get_freelist_offset(f, pa, i)
                        \/ SlotEnd(f, pa, i) = off}
SmallestSize(f, pa) ==
  CHOOSE m \in {get_freelist_size(f, pa, i) : i \in AllSlots} :
    \A i \in AllSlots : m <= get_freelist_size(f, pa, i)
FirstEmpty(f, pa) ==
  CHOOSE i \in AllSlots \ Slots(f, pa) :
    \A j \in AllSlots \ Slots(f, pa) : i <= j
\* the freelist of the run at pa in g is the one of f with the region
\* (off, size) added
AddedTo(f, g, pa, off, size) ==
  IF get_num_pages(f, pa) > 1
  THEN \A i \in AllSlots :
         /\ get_freelist_size(g, pa, i) = get_freelist_size(f, pa, i)
         /\ (i > 0 \/ ~crc)
              => get_freelist_offset(g, pa, i) = get_freelist_offset(f, pa, i)
  ELSE IF Abutting(f, pa, off, size) # {}
  THEN \E i \in Abutting(f, pa, off, size) :
         OnlyChanged(f, g, pa, i,
           IF off + size = get_freelist_offset(f, pa, i)
           THEN <<off, get_freelist_size(f, pa, i) + size>>
           ELSE <<get_freelist_offset(f, pa, i),
                  get_freelist_size(f, pa, i) + size>>)
  ELSE IF AllSlots \ Slots(f, pa) # {}
  THEN OnlyChanged(f, g, pa, FirstEmpty(f, pa), <<off, size>>)
  ELSE IF size > SmallestSize(f, pa)
  THEN \E i \in AllSlots :
         /\ get_freelist_size(f, pa, i) = SmallestSize(f, pa)
         /\ OnlyChanged(f, g, pa, i, <<off, size>>)
  ELSE \A i \in AllSlots : SlotAt(g, pa, i) = SlotAt(f, pa, i)

\* the step is an erase that keeps the run of the erased blob
ErasedInRun ==
  /\ Stepped
  /\ hist'[1].op = "erase" /\ hist'[1].status = "ok" /\ ~hist'[1].released
\* the step is an in-place overwrite with a smaller record
ShrunkInPlace ==
  /\ Stepped
  /\ hist'[1].op = "overwrite" /\ hist'[1].status = "ok" /\ hist'[1].inplace
  /\ hist'[1].alloc_size < hist'[1].old_alloc

OverwroteInPlace ==
  /\ Stepped
  /\ hist'[1].op = "overwrite" /\ hist'[1].status = "ok" /\ hist'[1].inplace
\* the slots of the run at pa are the same in f and g (the first offset
\* word of a run of several pages holds the checksum, not a slot)
SameFreelist(f, g, pa) ==
  \A i \in AllSlots :
    /\ get_freelist_size(g, pa, i) = get_freelist_size(f, pa, i)
    /\ (i > 0 \/ ~crc \/ get_num_pages(f, pa) = 1)
         => get_freelist_offset(g, pa, i) = get_freelist_offset(f, pa, i)

C24_WitnessEqual ==
  /\ hist[1].op = "overwrite" /\ hist[1].status = "ok" /\ hist[1].inplace
  /\ hist[1].alloc_size = hist[1].old_alloc

\* ---------------------------------------------------------------- C25
\* C25: after an allocate the last_blob_page hint is the run of the new blob
\* if free_bytes of that run is above 0, and none if it is 0.
C25_Hint ==
  (hist[1].op = "allocate" /\ hist[1].status = "ok")
    => last_blob_page
         = (IF get_free_bytes(file, PageAddress(hist[1].page)) > 0
            THEN hist[1].page ELSE 0)

\* an allocate took the last free words of the hinted page: the hint is gone
C25_Witness ==
  /\ hist[1].op = "allocate" /\ ~hist[1].newrun
  /\ get_free_bytes(file, PageAddress(hist[1].page)) = 0
  /\ last_blob_page = 0

\* an allocate left free words on its run: the run is the hint
C25_WitnessKept ==
  /\ hist[1].op = "allocate" /\ hist[1].newrun
  /\ get_free_bytes(file, PageAddress(hist[1].page)) > 0
  /\ last_blob_page = hist[1].page
  /\ hist[2].op = "allocate" /\ hist[2].page # hist[1].page

\* ---------------------------------------------------------------- C26
\* the runs of a caller that writes partial records to a database with a
\* record compressor
PartialCompressInit ==
  /\ file = [a \in Addr |-> 0]
  /\ last_blob_page = 0
  /\ pm_runs = {}
  /\ workload = "partial_compress"
  /\ crc = FALSE
  /\ compressor = TRUE
  /\ live = [x \in {} |-> 0]
  /\ known = {}
  /\ hist = <<NoOp, NoOp, NoOp>>
  /\ nops = 0
  /\ rres = NoRead
  /\ DevIdle
PartialCompressNext ==
  \/ Allocate
  \/ Erase
  \/ Overwrite
PartialCompressSpec == PartialCompressInit /\ [][PartialCompressNext]_vars

\* the request that wrote the blob the last allocate returned
Allocated == live[hist[1].ret]
MayCompress ==
  compressor /\ ~Allocated.flags.nocompress /\ ~Allocated.flags.partial

\* C26: allocate compresses only with a compressor configured, without
\* DisableCompression and without Partial, and stores the compressed bytes
\* only if they are strictly shorter than the record; the header then has
\* the Compressed flag, size = the original length and alloc_size =
\* sizeof(BlobHeader) + the compressed length; in every other case the flag
\* is clear and alloc_size = sizeof(BlobHeader) + record.size.
C26_Compression ==
  (hist[1].op = "allocate" /\ hist[1].ret \in DOMAIN live)
    => LET id == hist[1].ret
           rec == Allocated.rec
           len == Len(compress(Allocated.rec.data))
       IN /\ get_size(file, id) = rec.size
          /\ IF MayCompress /\ len < rec.size
             THEN /\ get_flags(file, id) = kIsCompressed
                  /\ get_alloc_size(file, id) = SizeofBlobHeader + len
             ELSE /\ get_flags(file, id) = 0
                  /\ get_alloc_size(file, id) = SizeofBlobHeader + rec.size

\* a record written with Partial was stored compressed
C26_PartialCompressed ==
  /\ hist[1].op = "allocate" /\ hist[1].ret \in DOMAIN live
  /\ Allocated.flags.partial
  /\ get_flags(file, hist[1].ret) = kIsCompressed
  /\ get_alloc_size(file, hist[1].ret) < SizeofBlobHeader + Allocated.rec.size

\* ---------------------------------------------------------------- C27
\* the words [lo1, hi1) and [lo2, hi2) have none in common
Apart(lo1, hi1, lo2, hi2) == hi1 <= lo2 \/ hi2 <= lo1
FootprintEnd(b) == b + get_alloc_size(file, b)
\* the non-empty slot i of the single-page run at pa lies in the page past
\* the header and shares no word with a live blob or another slot
SlotIsFree(pa, i) ==
  /\ get_freelist_offset(file, pa, i) >= kPageOverhead
  /\ SlotEnd(file, pa, i) <= PageSize
  /\ \A b \in BlobsOn(pa \div PageSize) :
       Apart(pa + get_freelist_offset(file, pa, i), pa + SlotEnd(file, pa, i),
             b, FootprintEnd(b))
  /\ \A j \in Slots(file, pa) \ {i} :
       Apart(get_freelist_offset(file, pa, i), SlotEnd(file, pa, i),
             get_freelist_offset(file, pa, j), SlotEnd(file, pa, j))

\* C27: the footprints [id, id + alloc_size) of the live blobs are pairwise
\* disjoint and each lies inside its run past kPageOverhead; every non-empty
\* freelist slot of a single-page run, the last slot index included, lies in
\* [kPageOverhead, page_size) and overlaps no live blob and no other slot.
C27_Footprints ==
  /\ \A b \in DOMAIN live :
       \E r \in pm_runs :
         /\ PageAddress(r[1]) + kPageOverhead <= b
         /\ FootprintEnd(b) <= PageAddress(r[1]) + r[2] * PageSize
  /\ \A b, c \in DOMAIN live :
       b # c => Apart(b, FootprintEnd(b), c, FootprintEnd(c))
  /\ \A r \in pm_runs :
       get_num_pages(file, PageAddress(r[1])) = 1
         => \A i \in Slots(file, PageAddress(r[1])) :
              SlotIsFree(PageAddress(r[1]), i)

\* a single-page run with two live blobs whose last freelist slot is in use
\* and ends where a live blob begins
C27_Witness ==
  \E r \in pm_runs :
    LET pa == PageAddress(r[1]) IN
    /\ get_num_pages(file, pa) = 1
    /\ Cardinality(BlobsOn(r[1])) >= 2
    /\ (FreelistEntries - 1) \in Slots(file, pa)
    /\ \E b \in BlobsOn(r[1]) : pa + SlotEnd(file, pa, FreelistEntries - 1) = b

\* ---------------------------------------------------------------- C28
\* C28: while the device is open, excess_at_end <= file_size, and the range
\* an alloc has returned ends at or before file_size - excess_at_end.
C28_Excess ==
  m_state.open
    => /\ m_state.excess_at_end <= m_state.file_size
       /\ (dhist.op = "alloc" /\ dhist.status = "ok")
            => dhist.ret + dhist.arg
                 <= m_state.file_size - m_state.excess_at_end

\* two allocs in a row return ranges that do not overlap
C28_Successive ==
  [][(/\ dhist.op = "alloc" /\ dhist.status = "ok"
      /\ dhist'.op = "alloc" /\ dhist'.status = "ok"
      /\ dops' = dops + 1)
       => Apart(dhist.ret, dhist.ret + dhist.arg,
                dhist'.ret, dhist'.ret + dhist'.arg)]_vars

\* a truncate has cut the file below the excess reserved at its end
C28_StaleExcess ==
  /\ m_state.open
  /\ dhist.op = "truncate" /\ dhist.status = "ok"
  /\ dhist.pre.excess_at_end > 0
  /\ m_state.excess_at_end = dhist.pre.excess_at_end
  /\ m_state.file_size < m_state.excess_at_end

\* ---------------------------------------------------------------- C29
\* C29: mapped_size > 0 only while the window at the mmap pointer is
\* established (pointer not null, window not unmapped), so that is_mapped
\* answers true only for ranges the window covers.
C29_Window ==
  /\ m_state.mapped_size > 0
       => m_state.mmapptr # 0 /\ m_state.mmapptr \in os.mapped
  /\ \A a \in PageAddresses :
       is_mapped(m_state, a, PageSize) => m_state.mmapptr \in os.mapped

\* after an open whose mmap failed is_mapped answers true for a page
C29_AfterFailedMmap ==
  /\ dhist.op = "open" /\ dhist.ret = 1 /\ ~dhist.io
  /\ m_state.mmapptr = 0
  /\ is_mapped(m_state, 0, PageSize)

\* after close is_mapped answers true for a page of the window that close
\* has unmapped
C29_AfterClose ==
  /\ dhist.op = "close"
  /\ dhist.pre.mmapptr \in dhist.preos.mapped
  /\ m_state.mmapptr \notin os.mapped
  /\ is_mapped(m_state, 0, PageSize)

\* ---------------------------------------------------------------- C30
\* C30: the last_blob_page hint is none or the first page of a run the page
\* manager has handed out and not taken back; an erase (also the one inside
\* a relocating overwrite) that releases a run leaves the hint at none; the
\* hint is set only by an allocate (also the one inside a relocating
\* overwrite), to the run of the blob it returns.
C30_Hint ==
  [][/\ last_blob_page' # 0 => last_blob_page' \in RunPages'
     /\ (Stepped /\ hist'[1].status = "ok" /\ hist'[1].released)
          => last_blob_page' = 0
     /\ (last_blob_page' # last_blob_page /\ last_blob_page' # 0)
          => /\ \/ hist'[1].op = "allocate"
                \/ hist'[1].op = "overwrite" /\ ~hist'[1].inplace
             /\ last_blob_page' = hist'[1].page
             /\ hist'[1].ret \in DOMAIN live']_vars

\* an erase released a run while the hint pointed at another run, which is
\* still handed out: the hint is none
C30_Witness ==
  /\ hist[1].op = "erase" /\ hist[1].status = "ok" /\ hist[1].released
  /\ hist[2].op = "allocate" /\ hist[2].page # hist[1].page
  /\ hist[2].page \in RunPages
  /\ get_free_bytes(file, PageAddress(hist[2].page)) > 0
  /\ last_blob_page = 0

\* ---------------------------------------------------------------- C31
\* C31: with CRC enabled, a non-Partial read of a live blob on a run of
\* several pages whose stored bytes only allocate and overwrite have
\* written does not fail with IntegrityViolated, whether or not the last
\* write of the blob used HAM_PARTIAL.
C31_NoFalseAlarm ==
  (crc /\ rres = NoRead)
    => \A b \in DOMAIN live :
         (MultiPage(file, b) /\ ~live[b].mutated)
           => do_read(file, b, FullRead).status # "IntegrityViolated"

\* the full read of a multi-page blob that a Partial allocate wrote fails
C31_AfterPartialAllocate ==
  /\ crc
  /\ hist[1].op = "allocate" /\ hist[1].partial
  /\ MultiPage(file, hist[1].ret)
  /\ get_freelist_offset(file, PageId(hist[1].ret), 0) = 0
  /\ do_read(file, hist[1].ret, FullRead).status = "IntegrityViolated"

\* the full read of a multi-page blob fails after a Partial overwrite in
\* place of a blob that read back before
C31_AfterPartialOverwrite ==
  /\ crc
  /\ hist[1].op = "overwrite" /\ hist[1].inplace /\ hist[1].partial
  /\ hist[2].op = "allocate" /\ ~hist[2].partial
  /\ hist[2].ret = hist[1].ret
  /\ MultiPage(file, hist[1].ret)
  /\ do_read(file, hist[1].ret, FullRead).status = "IntegrityViolated"

\* without a Partial write no full read of an untouched blob fails
C31_FullWritesOnly ==
  (crc /\ rres = NoRead)
    => \A b \in DOMAIN live :
         (MultiPage(file, b) /\ ~live[b].mutated /\ ~live[b].flags.partial)
           => do_read(file, b, FullRead).status # "IntegrityViolated"

\* ---------------------------------------------------------------- C32
\* ------------------------------------------- the spinlock, step by step
MaxLockOps == 4
\* the operations that open a ScopedSpinlock scope on entry
OwnLock(op) ==
  op \in {"open", "close", "truncate", "alloc", "reclaim_space", "read_page"}
\* as if alloc and reclaim_space called truncate() for the new size
CalleeLock_truncate(op) == op \in {"alloc_page", "alloc", "reclaim_space"}
\* the operations whose body calls a function that opens a ScopedSpinlock
\* scope: alloc_page calls alloc; alloc and reclaim_space call
\* truncate_nolock, which takes no lock
CalleeLock(op) == op = "alloc_page"

\* the thread calls an operation of the device
LkCall(t) ==
  /\ thr[t].pc = "idle"
  /\ dops < MaxLockOps
  /\ dops' = dops + 1
  /\ \E c \in Calls : thr' = [thr EXCEPT ![t] = [c EXCEPT !.pc = "entry"]]
  /\ UNCHANGED <<m_state, m_config, os, the_page, dhist, m_mutex>>
  /\ UNCHANGED blobvars

\* the entry of the operation: a ScopedSpinlock spins until the lock is free
LkEnter(t) ==
  /\ thr[t].pc = "entry"
  /\ OwnLock(thr[t].op) => m_mutex = 0
  /\ m_mutex' = (IF OwnLock(thr[t].op) THEN t ELSE m_mutex)
  /\ thr' = [thr EXCEPT ![t].pc = "body"]
  /\ UNCHANGED <<m_state, m_config, os, the_page, dhist, dops>>
  /\ UNCHANGED blobvars

\* the entry of the function the body calls
LkInner(t) ==
  /\ thr[t].pc = "body"
  /\ CalleeLock(thr[t].op) => m_mutex = 0
  /\ m_mutex' = (IF CalleeLock(thr[t].op) THEN t ELSE m_mutex)
  /\ thr' = [thr EXCEPT ![t].pc = "locked"]
  /\ UNCHANGED <<m_state, m_config, os, the_page, dhist, dops>>
  /\ UNCHANGED blobvars

\* the steps of thread t once it has made its call
Runs(t) == LkEnter(t) \/ LkInner(t) \/ Access(t) \/ Release(t) \/ AssignPage(t)

LockNext ==
  \/ \E t \in 1..MaxThreads : LkCall(t)
  \/ \E t \in 1..MaxThreads : LkEnter(t)
  \/ \E t \in 1..MaxThreads : LkInner(t)
  \/ \E t \in 1..MaxThreads : Access(t)
  \/ \E t \in 1..MaxThreads : Release(t)
  \/ \E t \in 1..MaxThreads : AssignPage(t)

\* every thread that can take a step is scheduled at some time
LockSpec ==
  /\ ConcInit
  /\ [][LockNext]_vars
  /\ \A t \in 1..MaxThreads : WF_vars(Runs(t))

\* the thread is at a ScopedSpinlock and has not passed it
AtLock(t) ==
  \/ thr[t].pc = "entry" /\ OwnLock(thr[t].op)
  \/ thr[t].pc = "body" /\ CalleeLock(thr[t].op)
\* the thread is outside every lock scope
Outside(t) ==
  \/ thr[t].pc \in {"idle", "page"}
  \/ thr[t].pc = "entry"
  \/ thr[t].pc = "body" /\ ~OwnLock(thr[t].op)

C32_Discipline ==
  \A t \in 1..MaxThreads :
    /\ AtLock(t) => m_mutex # t
    /\ Outside(t) => m_mutex # t
    /\ thr[t].pc \in {"locked", "accessed"} => m_mutex = t

C32_WitnessAllocPage ==
  \E t, u \in 1..MaxThreads :
    /\ thr[t].pc = "page"
    /\ m_mutex = u /\ u # t

====
